---------------------------- MODULE Spec2Model ----------------------------
(***************************************************************************)
(* Block-parallel execution and stitching engine of cluster_tools.         *)
(*                                                                         *)
(* The specifications of this module:                                      *)
(*   SpecMerge     global-id unification of multicut/sub_solutions.py      *)
(*                 (_read_subresults), run on bounded inputs;              *)
(*   Spec          one stage invocation: run_impl, the job shards and the  *)
(*                 per-block pipelines of multiscale_inference,            *)
(*                 sub_solutions and background_size_filter, check_jobs;   *)
(*   FairSpec      Spec with every job run to its end;                     *)
(*   SpecGrid      the block grid and the sharding of a block list;        *)
(*   SpecHalo      the halo window of _load_input;                         *)
(*   SpecConfig    the configuration checks of multiscale inference;       *)
(*   SpecPipeline  the thread pool of one job of multiscale inference;     *)
(*   SpecCrop      the shapes of a block's prediction up to its write;     *)
(*   SpecWriters   the output regions written by the jobs of an attempt;   *)
(*   SpecIdentity  the voxel values of the end-to-end example;             *)
(*   SpecAttempts  the ids left by the attempts of sub_solutions;          *)
(*   SpecFilter    the voxels of one job of background_size_filter;        *)
(*   SpecLock      the worker threads of a job at the predictor's lock;    *)
(*   FairSpecLock  SpecLock with a lock that is handed on.                 *)
(***************************************************************************)
EXTENDS Integers, Sequences, FiniteSets, TLC

VARIABLES
    \* ---- _read_subresults (SpecMerge) ----
    mpc,          \* "idle" | "reading" | "done" | "error"
    mIn,          \* per position of block_list: the stored nodes and node_result chunk
    mLabeling,    \* initial_node_labeling: None or an array indexed by node id
    mResults,     \* results[i] of the reader pool: "pending" or what read_subres returned
    mBlockList,   \* returned (filtered) block_list
    mOffsets,     \* block_offsets after roll / reset / cumsum
    mDicts        \* block_results: one dictionary per kept block

mergeVars == <<mpc, mIn, mLabeling, mResults, mBlockList, mOffsets, mDicts>>

VARIABLES
    \* ---- one stage invocation (Spec) ----
    task,            \* task_name of the stage
    stage,           \* "Planned" | "AwaitingCompletion" | "Completed" | "Failed"
    n_retries,       \* self.n_retries
    self_block_list, \* self.block_list: the failed blocks handed to a retry
    block_list,      \* run_impl's block_list of the current attempt
    job_blocks,      \* job id -> config['block_list'] of that job shard
    job_state,       \* job id -> "running" | "writing" | "success" | "failed"
    pc,              \* block -> position of its pipeline in the current attempt
    data,            \* block -> what flows through its pipeline: "unset" | "None" | "array"
    out,             \* block -> its region of the output dataset: "none" | "partial" | "full"
    block_success,   \* blocks with a log_block_success marker
    calls,           \* block -> collaborator calls made for it so far
    mask,            \* "None" (no mask_path) or "loaded"
    mask_sum,        \* block -> np.sum(mask[bb]) (0: all false)
    labels_sum,      \* block -> np.sum(labels) of background_size_filter's input (0: all ignore)
    subres_stored,   \* block -> whether sub_solutions finds a stored sub-result for it
    run_calls,       \* the collaborator calls of the last run_impl, in call order
    ds_exists,       \* whether the stage's output dataset exists in the output file
    n_create         \* how often the output dataset has been created

stageVars == <<task, stage, n_retries, self_block_list, block_list, job_blocks,
               job_state, pc, data, out, block_success, calls, mask, mask_sum,
               labels_sum, subres_stored, run_calls, ds_exists, n_create>>

VARIABLES
    \* ---- a single call of a pure function, or one configuration on its way
    \*      through the code (SpecGrid, SpecHalo, SpecConfig and the later ones) ----
    hpc,          \* position of the call
    hIn,          \* its arguments
    hOut          \* what it has computed so far

harnessVars == <<hpc, hIn, hOut>>

vars == <<mergeVars, stageVars, harnessVars>>

----------------------------------------------------------------------------
(* Generic helpers *)

\* Python's None where an array is expected: no array (no stored chunk, no
\* initial node labeling).
None == <<>>

Range(s) == {s[i] : i \in 1..Len(s)}

Max(S) == CHOOSE x \in S : \A y \in S : y <= x

SeqMax(s) == Max(Range(s))

Min(a, b) == IF a < b THEN a ELSE b

RECURSIVE SumSeq(_)
SumSeq(s) == IF Len(s) = 0 THEN 0 ELSE s[1] + SumSeq(Tail(s))

\* The positions of s whose element satisfies Keep, in order.
RECURSIVE KeptIndices(_, _)
KeptIndices(flags, i) ==
    IF i > Len(flags) THEN <<>>
    ELSE (IF flags[i] THEN <<i>> ELSE <<>>) \o KeptIndices(flags, i + 1)

----------------------------------------------------------------------------
(* Bounds and input domains of SpecMerge *)

MaxMergeBlocks == 3

NodeIds == {0, 1}
ResIds == {0, 1}

\* ndist.loadNodes: the sorted unique node ids of a block.
NodeSeqs == {<<0>>, <<1>>, <<0, 1>>}

\* A stored node_result chunk for a block with these nodes: absent, one result
\* per node, or (one representative) a chunk of the wrong length.
SubresFor(nodes) ==
    {None} \cup [1..Len(nodes) -> ResIds]
           \cup (IF Len(nodes) > 1 THEN {<<0>>} ELSE {})

BlockInputs ==
    UNION {{[nodes |-> n, subres |-> s] : s \in SubresFor(n)} : n \in NodeSeqs}

Labelings == {None} \cup [NodeIds -> NodeIds]

\* The worked example of the global-id unification: three blocks, the second
\* without sub-results; results 0..2 in the first and up to 4 in the third.
ExampleInput ==
    << [nodes |-> <<0, 1, 2>>, subres |-> <<0, 1, 2>>],
       [nodes |-> <<0>>,       subres |-> None],
       [nodes |-> <<0, 4>>,    subres |-> <<0, 4>>] >>

MergeInputs ==
    UNION {[1..n -> BlockInputs] : n \in 1..MaxMergeBlocks} \cup {ExampleInput}

----------------------------------------------------------------------------
(* _read_subresults, as the code computes it *)

\* What a future of the reader pool holds.
Pending == [tag |-> "pending"]
ResNone == [tag |-> "None"]
AssertionError == [tag |-> "AssertionError"]

read_subres_max(inp) ==
    IF inp.subres = None
    THEN (IF 0 \in Range(inp.nodes) THEN ResNone ELSE AssertionError)
    ELSE IF Len(inp.nodes) # Len(inp.subres) THEN AssertionError
    ELSE [tag |-> "res", nodes |-> inp.nodes, subres |-> inp.subres,
          off |-> SeqMax(inp.subres)]

\* A reader that hands on a block without stored sub-result as a block whose
\* nodes all have result 0.
read_subres_keeps_none(inp) ==
    IF inp.subres = None
    THEN [tag |-> "res", nodes |-> inp.nodes,
          subres |-> [i \in 1..Len(inp.nodes) |-> 0], off |-> 1]
    ELSE IF Len(inp.nodes) # Len(inp.subres) THEN AssertionError
    ELSE [tag |-> "res", nodes |-> inp.nodes, subres |-> inp.subres,
          off |-> SeqMax(inp.subres) + 1]

\* read_subres: (nodes, subres, int(subres.max()) + 1), None, or a failed assert.
read_subres(inp) ==
    IF inp.subres = None
    THEN (IF 0 \in Range(inp.nodes) THEN ResNone ELSE AssertionError)
    ELSE IF Len(inp.nodes) # Len(inp.subres) THEN AssertionError
    ELSE [tag |-> "res", nodes |-> inp.nodes, subres |-> inp.subres,
          off |-> SeqMax(inp.subres) + 1]

\* np.roll(a, 1)
roll(a) ==
    IF Len(a) = 0 THEN a ELSE <<a[Len(a)]>> \o SubSeq(a, 1, Len(a) - 1)

\* np.cumsum(a)
cumsum(a) == [i \in 1..Len(a) |-> SumSeq(SubSeq(a, 1, i))]

block_offsets_noreset(offs) == cumsum(roll(offs))

\* lines 183-185: roll by one, force the first entry to 0, cumulative sum.
\* Only used on a non-empty array (the empty one raises at line 184).
block_offsets(offs) == cumsum([roll(offs) EXCEPT ![1] = 0])

\* bres + boff
add_offset(bres, boff) == [i \in 1..Len(bres) |-> bres[i] + boff]

\* initial_node_labeling[nodes]
apply_labeling(lab, nodes) ==
    IF lab = None THEN nodes ELSE [i \in 1..Len(nodes) |-> lab[nodes[i]]]

IndexError(lab, nodes) ==
    lab # None /\ \E i \in 1..Len(nodes) : nodes[i] \notin DOMAIN lab

dict_entry_nozero(node_id, res_id) == res_id

\* res_id if node_id != 0 else 0
dict_entry(node_id, res_id) == IF node_id # 0 THEN res_id ELSE 0

\* {node_id: ... for node_id, res_id in zip(bnodes, bres)}: a later pair with
\* the same key replaces an earlier one.
block_result_dict(bnodes, bres) ==
    [k \in Range(bnodes) |->
        LET last == Max({i \in 1..Len(bnodes) : bnodes[i] = k})
        IN  dict_entry(k, bres[last])]

----------------------------------------------------------------------------
(* SpecMerge: the reader pool fills results in any order, then the main     *)
(* thread collects them in block_list order and builds the dictionaries.    *)

\* The stage variables while only _read_subresults runs.
StageIdle ==
    /\ task = "sub_solutions"
    /\ stage = "Idle"
    /\ n_retries = 0
    /\ self_block_list = <<>>
    /\ block_list = <<>>
    /\ job_blocks = <<>>
    /\ job_state = <<>>
    /\ pc = <<>>
    /\ data = <<>>
    /\ out = <<>>
    /\ block_success = {}
    /\ calls = <<>>
    /\ mask = "None"
    /\ mask_sum = <<>>
    /\ labels_sum = <<>>
    /\ subres_stored = <<>>
    /\ run_calls = <<>>
    /\ ds_exists = FALSE
    /\ n_create = 0

\* The single-call variables while another specification runs.
HarnessIdle ==
    /\ hpc = "idle"
    /\ hIn = <<>>
    /\ hOut = <<>>

InitMerge ==
    /\ StageIdle
    /\ HarnessIdle
    /\ mpc = "reading"
    /\ mIn \in MergeInputs
    /\ mLabeling \in Labelings
    /\ mResults = [i \in 1..Len(mIn) |-> Pending]
    /\ mBlockList = <<>>
    /\ mOffsets = <<>>
    /\ mDicts = <<>>

\* Results kept in the order in which the readers finish: the first place
\* that is still free.
result_slot_as_completed(i) ==
    CHOOSE k \in 1..Len(mResults) :
        mResults[k] = Pending /\ \A l \in 1..(k - 1) : mResults[l] # Pending

\* results = [t.result() for t in tasks]: the result of the i-th task is the
\* i-th entry, whenever the task finishes.
result_slot(i) == i

\* One reader thread finishes read_subres for position i of block_list.
ReadSubres(i) ==
    /\ mpc = "reading"
    /\ mResults[i] = Pending
    /\ mResults' = [mResults EXCEPT ![result_slot(i)] = read_subres(mIn[i])]
    /\ UNCHANGED <<mpc, mIn, mLabeling, mBlockList, mOffsets, mDicts>>
    /\ UNCHANGED <<stageVars, harnessVars>>

AllRead == \A i \in 1..Len(mResults) : mResults[i] # Pending

\* lines 172-198 once every future is done.
CollectSubresults ==
    /\ mpc = "reading"
    /\ AllRead
    /\ LET n       == Len(mResults)
           kept    == KeptIndices([i \in 1..n |-> mResults[i].tag = "res"], 1)
           bnodes  == [k \in 1..Len(kept) |-> mResults[kept[k]].nodes]
           bres0   == [k \in 1..Len(kept) |-> mResults[kept[k]].subres]
           offs0   == [k \in 1..Len(kept) |-> mResults[kept[k]].off]
       IN  IF \/ \E i \in 1..n : mResults[i] = AssertionError   \* t.result() raises
              \/ Len(kept) = 0                                  \* block_offsets[0] = 0
              \/ \E k \in 1..Len(kept) : IndexError(mLabeling, bnodes[k])
           THEN /\ mpc' = "error"
                /\ UNCHANGED <<mBlockList, mOffsets, mDicts>>
           ELSE LET offs == block_offsets(offs0)
                    bres == [k \in 1..Len(kept) |-> add_offset(bres0[k], offs[k])]
                    keys == [k \in 1..Len(kept) |-> apply_labeling(mLabeling, bnodes[k])]
                IN  /\ mpc' = "done"
                    /\ mBlockList' = kept
                    /\ mOffsets' = offs
                    /\ mDicts' = [k \in 1..Len(kept) |->
                                     block_result_dict(keys[k], bres[k])]
    /\ UNCHANGED <<mIn, mLabeling, mResults>>
    /\ UNCHANGED <<stageVars, harnessVars>>

NextMerge ==
    \/ \E i \in 1..MaxMergeBlocks : i <= Len(mIn) /\ ReadSubres(i)
    \/ CollectSubresults

SpecMerge == InitMerge /\ [][NextMerge]_vars

----------------------------------------------------------------------------
(* One stage invocation: bounds and configuration *)

NBlocks == 3
MaxJobs == 2
MaxNumRetries == 1

Tasks == {"multiscale_inference", "sub_solutions", "background_size_filter"}

AllBlocks == 0..(NBlocks - 1)

\* vu.blocks_in_volume(shape, block_shape): the block ids in row-major order.
blocks_in_volume == [i \in 1..NBlocks |-> i - 1]

max_jobs == MaxJobs

max_num_retries == MaxNumRetries

\* The task default: a failed attempt is retried.
default_allow_retry == TRUE

\* The flag left at the task default.
allow_retry_default == default_allow_retry

\* allow_retry = False in MultiscaleInferenceBase; the other two stages keep
\* the task default.
allow_retry ==
    IF task = "multiscale_inference" THEN FALSE ELSE default_allow_retry

\* The job count without the min: always max_jobs.
n_jobs_max(bl) == max_jobs

\* n_jobs = min(len(block_list), self.max_jobs); sub_solutions always uses 1.
n_jobs_of(bl) ==
    IF task = "sub_solutions" THEN 1 ELSE Min(Len(bl), max_jobs)

\* Shards whose slice runs to the end of the list instead of to its own end.
prepare_jobs_open_ended(n_jobs, bl) ==
    LET q == Len(bl) \div n_jobs
        r == Len(bl) % n_jobs
        start(j) == j * q + Min(j, r)
    IN  [j \in 0..(n_jobs - 1) |-> SubSeq(bl, start(j) + 1, Len(bl))]

\* prepare_jobs: job_id -> its contiguous slice of block_list, sizes as equal
\* as possible (the first len % n_jobs shards hold one block more).
prepare_jobs(n_jobs, bl) ==
    LET q == Len(bl) \div n_jobs
        r == Len(bl) % n_jobs
        start(j) == j * q + Min(j, r)
        size(j)  == q + (IF j < r THEN 1 ELSE 0)
    IN  [j \in 0..(n_jobs - 1) |-> SubSeq(bl, start(j) + 1, start(j) + size(j))]

Jobs == DOMAIN job_blocks

InJob(b, j) == j \in Jobs /\ b \in Range(job_blocks[j])

\* The blocks of a list that have no Success marker, in list order.
UnmarkedOf(bl) == SelectSeq(bl, LAMBDA b : b \notin block_success)

----------------------------------------------------------------------------
(* run_impl and check_jobs *)

\* The retry branch with the full block list instead of self.block_list.
retry_block_list_full == blocks_in_volume

\* block_list = self.block_list  (n_retries > 0)
retry_block_list == self_block_list

\* A clean-up that starts the pipelines of all blocks over, whatever the list.
clean_up_for_retry_all(bl) ==
    /\ pc' = [b \in AllBlocks |-> "todo"]
    /\ data' = [b \in AllBlocks |-> "unset"]
    /\ out' = [b \in AllBlocks |-> IF task # "sub_solutions" THEN "none" ELSE out[b]]

\* clean_up_for_retry(block_list): the pipelines of the listed blocks start
\* over.  The base task discards what the failed attempt left of their
\* output; SubSolutionsBase only calls the base and leaves the output of
\* failed blocks in place (its TODO at line 54).
clean_up_for_retry(bl) ==
    /\ pc' = [b \in AllBlocks |-> IF b \in Range(bl) THEN "todo" ELSE pc[b]]
    /\ data' = [b \in AllBlocks |-> IF b \in Range(bl) THEN "unset" ELSE data[b]]
    /\ out' = [b \in AllBlocks |->
                  IF b \in Range(bl) /\ task # "sub_solutions" THEN "none" ELSE out[b]]

\* require_dataset creating the dataset anew on every call.
require_dataset_always == TRUE

\* f.require_dataset(key, shape=..., ...): the dataset is created when the
\* file does not hold it yet, and is only opened when it does.
require_dataset_creates == ~ds_exists

\* The collaborator calls of run_impl up to submit_jobs, in source order:
\* background_size_filter plans the block list before it requires the output
\* dataset, the other two stages require the dataset first.
run_impl_calls ==
    LET plan == IF n_retries = 0 THEN <<"blocks_in_volume">>
                                 ELSE <<"clean_up_for_retry">>
    IN  (IF task = "background_size_filter"
         THEN plan \o <<"require_dataset">>
         ELSE <<"require_dataset">> \o plan)
        \o <<"prepare_jobs", "submit_jobs">>

\* run_impl up to submit_jobs: make the output dataset, plan the attempt's
\* block list, shard it, and start the jobs.
run_impl ==
    /\ stage = "Planned"
    /\ LET bl == IF n_retries = 0 THEN blocks_in_volume ELSE retry_block_list
           n_jobs == n_jobs_of(bl)
       IN  /\ block_list' = bl
           /\ job_blocks' = prepare_jobs(n_jobs, bl)
           /\ job_state' = [j \in 0..(n_jobs - 1) |-> "running"]
           /\ IF n_retries = 0
              THEN UNCHANGED <<pc, data, out>>
              ELSE clean_up_for_retry(bl)
    /\ run_calls' = run_impl_calls
    /\ ds_exists' = TRUE
    /\ n_create' = IF require_dataset_creates THEN n_create + 1 ELSE n_create
    /\ stage' = "AwaitingCompletion"
    /\ UNCHANGED <<task, n_retries, self_block_list, block_success, calls,
                   mask, mask_sum, labels_sum, subres_stored>>
    /\ UNCHANGED <<mergeVars, harnessVars>>

JobsFinished == \A j \in Jobs : job_state[j] \in {"success", "failed"}

check_jobs_by_job_status ==
    /\ stage = "AwaitingCompletion"
    /\ JobsFinished
    /\ IF \A j \in Jobs : job_state[j] = "success"
       THEN /\ stage' = "Completed"
            /\ UNCHANGED <<n_retries, self_block_list>>
       ELSE IF allow_retry /\ n_retries < max_num_retries
       THEN /\ stage' = "Planned"
            /\ n_retries' = n_retries + 1
            /\ self_block_list' = UnmarkedOf(block_list)
       ELSE /\ stage' = "Failed"
            /\ UNCHANGED <<n_retries, self_block_list>>
    /\ UNCHANGED <<task, block_list, job_blocks, job_state, pc, data, out,
                   block_success, calls, mask, mask_sum, labels_sum, subres_stored,
                   run_calls, ds_exists, n_create>>
    /\ UNCHANGED <<mergeVars, harnessVars>>

\* The retry counter left as it is.
n_retries_kept == n_retries

\* self.n_retries += 1 of a failed attempt that is retried.
n_retries_incremented == n_retries + 1

\* wait_for_jobs has returned; check_jobs reconciles the Success markers with
\* the attempt's block list: every block without a marker is a failure, a
\* failure is retried while the budget lasts, and is fatal after that.
check_jobs ==
    /\ stage = "AwaitingCompletion"
    /\ JobsFinished
    /\ LET failed_blocks == UnmarkedOf(block_list)
       IN  IF failed_blocks = <<>>
           THEN /\ stage' = "Completed"
                /\ UNCHANGED <<n_retries, self_block_list>>
           ELSE IF allow_retry /\ n_retries < max_num_retries
           THEN /\ stage' = "Planned"
                /\ n_retries' = n_retries_incremented
                /\ self_block_list' = failed_blocks
           ELSE /\ stage' = "Failed"
                /\ UNCHANGED <<n_retries, self_block_list>>
    /\ UNCHANGED <<task, block_list, job_blocks, job_state, pc, data, out,
                   block_success, calls, mask, mask_sum, labels_sum, subres_stored,
                   run_calls, ds_exists, n_create>>
    /\ UNCHANGED <<mergeVars, harnessVars>>

----------------------------------------------------------------------------
(* Steps shared by the per-block pipelines *)

stageFrame == <<task, stage, n_retries, self_block_list, block_list, job_blocks,
                mask, mask_sum, labels_sum, subres_stored, run_calls, ds_exists,
                n_create>>

\* A pipeline step of block b returns: b moves on, carrying d.
Returns(b, to, d) ==
    /\ pc' = [pc EXCEPT ![b] = to]
    /\ data' = [data EXCEPT ![b] = d]

\* A pipeline step of block b raises.
Raises(b) ==
    /\ pc' = [pc EXCEPT ![b] = "failed"]
    /\ UNCHANGED data

Called(b, what) == calls' = [calls EXCEPT ![b] = @ \cup {what}]

\* The exception of a block reaches the job at once and ends it: dask.compute
\* re-raises the first exception and schedules nothing further, and the list
\* comprehension of background_size_filter stops at the raising block.
JobAborts(j) == job_state' = [job_state EXCEPT ![j] = "failed"]

----------------------------------------------------------------------------
(* multiscale_inference: load_input -> preprocess_impl -> predict_impl ->   *)
(* write_output -> log2, one chain per block, run by dask's thread pool     *)

load_input_ignores_mask(b) == FALSE

\* mask is not None and np.sum(mask[bb]) == 0
load_input_skips(b) == mask # "None" /\ mask_sum[b] = 0

load_input(b, j) ==
    /\ task = "multiscale_inference" /\ stage = "AwaitingCompletion"
    /\ InJob(b, j) /\ job_state[j] = "running"
    /\ pc[b] = "todo"
    /\ IF load_input_skips(b)
       THEN /\ Returns(b, "loaded", "None")
            /\ UNCHANGED <<calls, job_state>>
       ELSE /\ Called(b, "load")
            /\ \/ Returns(b, "loaded", "array") /\ UNCHANGED job_state
               \/ Raises(b) /\ JobAborts(j)
    /\ UNCHANGED <<out, block_success>>
    /\ UNCHANGED stageFrame
    /\ UNCHANGED <<mergeVars, harnessVars>>

none_check_missing(b) == FALSE

\* "if data is None" of preprocess_impl and predict_impl, "if output is None"
\* of write_output.
is_none(b) == data[b] = "None"

\* preprocess_impl / predict_impl: pass None on, else call the collaborator.
preprocess_impl(b, j) ==
    /\ task = "multiscale_inference" /\ stage = "AwaitingCompletion"
    /\ InJob(b, j) /\ job_state[j] = "running"
    /\ pc[b] = "loaded"
    /\ IF is_none(b)
       THEN /\ Returns(b, "preprocessed", "None")
            /\ UNCHANGED <<calls, job_state>>
       ELSE /\ Called(b, "preprocess")
            /\ \/ Returns(b, "preprocessed", "array") /\ UNCHANGED job_state
               \/ Raises(b) /\ JobAborts(j)
    /\ UNCHANGED <<out, block_success>>
    /\ UNCHANGED stageFrame
    /\ UNCHANGED <<mergeVars, harnessVars>>

predict_impl(b, j) ==
    /\ task = "multiscale_inference" /\ stage = "AwaitingCompletion"
    /\ InJob(b, j) /\ job_state[j] = "running"
    /\ pc[b] = "preprocessed"
    /\ IF is_none(b)
       THEN /\ Returns(b, "predicted", "None")
            /\ UNCHANGED <<calls, job_state>>
       ELSE /\ Called(b, "predict")
            /\ \/ Returns(b, "predicted", "array") /\ UNCHANGED job_state
               \/ Raises(b) /\ JobAborts(j)
    /\ UNCHANGED <<out, block_success>>
    /\ UNCHANGED stageFrame
    /\ UNCHANGED <<mergeVars, harnessVars>>

\* write_output: nothing to do for None; else crop and write the block's
\* region of every output dataset.  An exception (a failed assertion, a write
\* error) leaves the region as it was or written in part.
write_output(b, j) ==
    /\ task = "multiscale_inference" /\ stage = "AwaitingCompletion"
    /\ InJob(b, j) /\ job_state[j] = "running"
    /\ pc[b] = "predicted"
    /\ IF is_none(b)
       THEN /\ Returns(b, "written", "None")
            /\ UNCHANGED <<calls, job_state, out>>
       ELSE /\ Called(b, "write")
            /\ \/ /\ Returns(b, "written", "array")
                  /\ out' = [out EXCEPT ![b] = "full"]
                  /\ UNCHANGED job_state
               \/ /\ Raises(b) /\ JobAborts(j)
                  /\ \E o \in {out[b], "partial"} : out' = [out EXCEPT ![b] = o]
    /\ UNCHANGED block_success
    /\ UNCHANGED stageFrame
    /\ UNCHANGED <<mergeVars, harnessVars>>

log2_guard_early(b) == pc[b] \in {"predicted", "written"}

\* log2 depends on write_output's result.
log2_guard(b) == pc[b] = "written"

\* fu.log_block_success(block_id)
log2(b, j) ==
    /\ task = "multiscale_inference" /\ stage = "AwaitingCompletion"
    /\ InJob(b, j) /\ job_state[j] = "running"
    /\ log2_guard(b)
    /\ block_success' = block_success \cup {b}
    /\ pc' = [pc EXCEPT ![b] = "marked"]
    /\ UNCHANGED <<data, out, calls, job_state>>
    /\ UNCHANGED stageFrame
    /\ UNCHANGED <<mergeVars, harnessVars>>

\* dask.compute returned: every chain of the job ran to its end.
job_done(j) == \A b \in Range(job_blocks[j]) : pc[b] = "marked"

\* multiscale_inference line 423: fu.log_job_success(job_id)
multiscale_inference(j) ==
    /\ task = "multiscale_inference" /\ stage = "AwaitingCompletion"
    /\ j \in Jobs /\ job_state[j] = "running"
    /\ job_done(j)
    /\ job_state' = [job_state EXCEPT ![j] = "success"]
    /\ UNCHANGED <<pc, data, out, block_success, calls>>
    /\ UNCHANGED stageFrame
    /\ UNCHANGED <<mergeVars, harnessVars>>

----------------------------------------------------------------------------
(* background_size_filter: apply_block for the job's blocks, one after the  *)
(* other in block_list order                                                *)

\* The block the list comprehension is at: the first one not yet done.
CurrentBlock(b, j) ==
    /\ InJob(b, j)
    /\ \E i \in 1..Len(job_blocks[j]) :
          /\ job_blocks[j][i] = b
          /\ \A k \in 1..(i - 1) : pc[job_blocks[j][k]] = "marked"

\* labels = ds_in[bb]
apply_block_load(b, j) ==
    /\ task = "background_size_filter" /\ stage = "AwaitingCompletion"
    /\ CurrentBlock(b, j) /\ job_state[j] = "running"
    /\ pc[b] = "todo"
    /\ Called(b, "load")
    /\ \/ Returns(b, "loaded", "array") /\ UNCHANGED job_state
       \/ Raises(b) /\ JobAborts(j)
    /\ UNCHANGED <<out, block_success>>
    /\ UNCHANGED stageFrame
    /\ UNCHANGED <<mergeVars, harnessVars>>

\* ds_out[bb] = labels (lines 124 and 129), not reached when np.sum(labels) == 0
apply_block_write(b, j) ==
    /\ task = "background_size_filter" /\ stage = "AwaitingCompletion"
    /\ CurrentBlock(b, j) /\ job_state[j] = "running"
    /\ pc[b] = "loaded" /\ labels_sum[b] # 0
    /\ Called(b, "write")
    /\ \/ /\ Returns(b, "written", "array")
          /\ out' = [out EXCEPT ![b] = "full"]
          /\ UNCHANGED job_state
       \/ /\ Raises(b) /\ JobAborts(j)
          /\ \E o \in {out[b], "partial"} : out' = [out EXCEPT ![b] = o]
    /\ UNCHANGED block_success
    /\ UNCHANGED stageFrame
    /\ UNCHANGED <<mergeVars, harnessVars>>

\* The places of apply_block that call fu.log_block_success: line 118 (all
\* ignore label, nothing written), lines 125 and 130 (after the write).
apply_block_log_guard(b) ==
    \/ pc[b] = "loaded" /\ labels_sum[b] = 0
    \/ pc[b] = "written"

apply_block_log(b, j) ==
    /\ task = "background_size_filter" /\ stage = "AwaitingCompletion"
    /\ CurrentBlock(b, j) /\ job_state[j] = "running"
    /\ apply_block_log_guard(b)
    /\ block_success' = block_success \cup {b}
    /\ pc' = [pc EXCEPT ![b] = "marked"]
    /\ UNCHANGED <<data, out, calls, job_state>>
    /\ UNCHANGED stageFrame
    /\ UNCHANGED <<mergeVars, harnessVars>>

\* background_size_filter lines 180-189: job 0 copies the maxId attribute
\* (which reads and writes the stores), then fu.log_job_success(job_id).
background_size_filter(j) ==
    /\ task = "background_size_filter" /\ stage = "AwaitingCompletion"
    /\ j \in Jobs /\ job_state[j] = "running"
    /\ job_done(j)
    /\ \/ job_state' = [job_state EXCEPT ![j] = "success"]
       \/ j = 0 /\ job_state' = [job_state EXCEPT ![j] = "failed"]
    /\ UNCHANGED <<pc, data, out, block_success, calls>>
    /\ UNCHANGED stageFrame
    /\ UNCHANGED <<mergeVars, harnessVars>>

----------------------------------------------------------------------------
(* sub_solutions: _read_subresults, then _write_block_res for every kept   *)
(* block on a thread pool, then log_job_success                             *)

\* The blocks of the job that _read_subresults keeps (res is not None).
KeptBlocks(j) == {b \in Range(job_blocks[j]) : subres_stored[b]}

\* sub_solutions lines 257-258.  It raises when a reader's assertion or read
\* fails, and at block_offsets[0] = 0 when no block has a sub-result.
read_subresults(j) ==
    /\ task = "sub_solutions" /\ stage = "AwaitingCompletion"
    /\ j \in Jobs /\ job_state[j] = "running"
    /\ \/ KeptBlocks(j) # {} /\ job_state' = [job_state EXCEPT ![j] = "writing"]
       \/ job_state' = [job_state EXCEPT ![j] = "failed"]
    /\ UNCHANGED <<pc, data, out, block_success, calls>>
    /\ UNCHANGED stageFrame
    /\ UNCHANGED <<mergeVars, harnessVars>>

\* _write_block_res lines 204-208: ws = ds_in[bb]; seg = nt.takeDict(block_res, ws)
write_block_res_load(b, j) ==
    /\ task = "sub_solutions" /\ stage = "AwaitingCompletion"
    /\ j \in Jobs /\ job_state[j] = "writing" /\ b \in KeptBlocks(j)
    /\ pc[b] = "todo"
    /\ Called(b, "load")
    /\ \/ Returns(b, "loaded", "array")
       \/ Raises(b)
    /\ UNCHANGED <<out, block_success, job_state>>
    /\ UNCHANGED stageFrame
    /\ UNCHANGED <<mergeVars, harnessVars>>

\* _write_block_res line 209: ds_out[bb] = seg
write_block_res_write(b, j) ==
    /\ task = "sub_solutions" /\ stage = "AwaitingCompletion"
    /\ j \in Jobs /\ job_state[j] = "writing" /\ b \in KeptBlocks(j)
    /\ pc[b] = "loaded"
    /\ Called(b, "write")
    /\ \/ /\ Returns(b, "written", "array")
          /\ out' = [out EXCEPT ![b] = "full"]
       \/ /\ Raises(b)
          /\ \E o \in {out[b], "partial"} : out' = [out EXCEPT ![b] = o]
    /\ UNCHANGED <<block_success, job_state>>
    /\ UNCHANGED stageFrame
    /\ UNCHANGED <<mergeVars, harnessVars>>

write_block_res_log_guard(b) == pc[b] = "written"

\* _write_block_res line 210: fu.log_block_success(block_id)
write_block_res_log(b, j) ==
    /\ task = "sub_solutions" /\ stage = "AwaitingCompletion"
    /\ j \in Jobs /\ job_state[j] = "writing" /\ b \in KeptBlocks(j)
    /\ write_block_res_log_guard(b)
    /\ block_success' = block_success \cup {b}
    /\ pc' = [pc EXCEPT ![b] = "marked"]
    /\ UNCHANGED <<data, out, calls, job_state>>
    /\ UNCHANGED stageFrame
    /\ UNCHANGED <<mergeVars, harnessVars>>

pool_result_ignored(j) == FALSE

\* [t.result() for t in tasks] re-raises the exception of a failed task.
pool_result_raises(j) == \E b \in KeptBlocks(j) : pc[b] = "failed"

\* sub_solutions lines 265-270: the pool is left when every submitted task
\* has ended; log_job_success is reached unless a task's result raised.
sub_solutions(j) ==
    /\ task = "sub_solutions" /\ stage = "AwaitingCompletion"
    /\ j \in Jobs /\ job_state[j] = "writing"
    /\ \A b \in KeptBlocks(j) : pc[b] \in {"marked", "failed"}
    /\ job_state' = [job_state EXCEPT ![j] =
                        IF pool_result_raises(j) THEN "failed" ELSE "success"]
    /\ UNCHANGED <<pc, data, out, block_success, calls>>
    /\ UNCHANGED stageFrame
    /\ UNCHANGED <<mergeVars, harnessVars>>

----------------------------------------------------------------------------
(* Spec: one stage invocation of one of the three tasks *)

\* The _read_subresults variables while a stage runs.
MergeIdle ==
    /\ mpc = "idle"
    /\ mIn = <<>>
    /\ mLabeling = None
    /\ mResults = <<>>
    /\ mBlockList = <<>>
    /\ mOffsets = <<>>
    /\ mDicts = <<>>

Init ==
    /\ MergeIdle
    /\ HarnessIdle
    /\ task \in Tasks
    /\ stage = "Planned"
    /\ n_retries = 0
    /\ self_block_list = <<>>
    /\ block_list = <<>>
    /\ job_blocks = <<>>
    /\ job_state = <<>>
    /\ pc = [b \in AllBlocks |-> "todo"]
    /\ data = [b \in AllBlocks |-> "unset"]
    /\ out = [b \in AllBlocks |-> "none"]
    /\ block_success = {}
    /\ calls = [b \in AllBlocks |-> {}]
    /\ mask \in (IF task = "multiscale_inference" THEN {"None", "loaded"} ELSE {"None"})
    /\ mask_sum \in (IF mask = "loaded" THEN [AllBlocks -> {0, 1}]
                                       ELSE {[b \in AllBlocks |-> 1]})
    /\ labels_sum \in (IF task = "background_size_filter"
                       THEN [AllBlocks -> {0, 1}] ELSE {[b \in AllBlocks |-> 1]})
    /\ subres_stored \in (IF task = "sub_solutions"
                          THEN [AllBlocks -> BOOLEAN] ELSE {[b \in AllBlocks |-> TRUE]})
    /\ run_calls = <<>>
    /\ ds_exists = FALSE
    /\ n_create = 0

Next ==
    \/ run_impl
    \/ check_jobs
    \/ \E b \in AllBlocks, j \in 0..(MaxJobs - 1) :
          \/ load_input(b, j)
          \/ preprocess_impl(b, j)
          \/ predict_impl(b, j)
          \/ write_output(b, j)
          \/ log2(b, j)
          \/ apply_block_load(b, j)
          \/ apply_block_write(b, j)
          \/ apply_block_log(b, j)
          \/ write_block_res_load(b, j)
          \/ write_block_res_write(b, j)
          \/ write_block_res_log(b, j)
    \/ \E j \in 0..(MaxJobs - 1) :
          \/ multiscale_inference(j)
          \/ background_size_filter(j)
          \/ read_subresults(j)
          \/ sub_solutions(j)

Spec == Init /\ [][Next]_vars

\* Spec with the scheduler's guarantee that work goes on: every submitted job
\* is run until it has ended with success or failure, and the task that waits
\* for the jobs sees their end.  A step that can be taken is eventually taken.
FairSpec == Spec /\ WF_vars(Next)

----------------------------------------------------------------------------
(* SpecGrid: the block grid.  Every job builds                              *)
(* nt.blocking([0, 0, 0], shape, block_shape) and looks the ids of its      *)
(* block list up in it; run_impl gets the ids from vu.blocks_in_volume.     *)
(* Two axes stand for the three of the code.                                *)

MaxExtent == 4
MaxBlockExtent == 3

Axes == {1, 2}

Origin == [d \in Axes |-> 0]

\* nt.blocking(roiBegin, roiEnd, blockShape)
blocking(roiBegin, roiEnd, blockShape) ==
    [roiBegin |-> roiBegin, roiEnd |-> roiEnd, blockShape |-> blockShape]

\* Blocks along each axis: the last one may be cut short.
blocksPerAxis(bl) ==
    [d \in Axes |->
        (bl.roiEnd[d] - bl.roiBegin[d] + bl.blockShape[d] - 1) \div bl.blockShape[d]]

numberOfBlocks(bl) == blocksPerAxis(bl)[1] * blocksPerAxis(bl)[2]

\* Row-major ids: the last axis runs fastest.
blockCoordinate(bl, id) ==
    <<id \div blocksPerAxis(bl)[2], id % blocksPerAxis(bl)[2]>>

\* A block that keeps the full block shape at the far edge.
getBlock_padded(bl, id) ==
    LET begin == [d \in Axes |->
                     bl.roiBegin[d] + blockCoordinate(bl, id)[d] * bl.blockShape[d]]
    IN  [begin |-> begin,
         end   |-> [d \in Axes |-> begin[d] + bl.blockShape[d]]]

\* blocking.getBlock(block_id): begin and end, the end cut at roiEnd.
getBlock(bl, id) ==
    LET begin == [d \in Axes |->
                     bl.roiBegin[d] + blockCoordinate(bl, id)[d] * bl.blockShape[d]]
    IN  [begin |-> begin,
         end   |-> [d \in Axes |-> Min(begin[d] + bl.blockShape[d], bl.roiEnd[d])]]

\* The block and the box [roi_begin, roi_end) share a coordinate.
Overlaps(block, roi_begin, roi_end) ==
    \A d \in Axes : block.begin[d] < roi_end[d] /\ roi_begin[d] < block.end[d]

RECURSIVE Ascending(_)
Ascending(S) ==
    IF S = {} THEN <<>>
    ELSE LET m == CHOOSE x \in S : \A y \in S : x <= y
         IN  <<m>> \o Ascending(S \ {m})

\* vu.blocks_in_volume(shape, block_shape, roi_begin, roi_end): the ids of the
\* volume's grid, all of them or those that intersect the roi, in id order.
vu_blocks_in_volume(shape, block_shape, roi_begin, roi_end) ==
    LET bl  == blocking(Origin, shape, block_shape)
        ids == 0..(numberOfBlocks(bl) - 1)
    IN  Ascending(IF roi_begin = None THEN ids
                  ELSE {i \in ids : Overlaps(getBlock(bl, i), roi_begin, roi_end)})

\* shape, block_shape and the optional roi of one stage.
GridInputs ==
    {[shape |-> sh, block_shape |-> bs, roi_begin |-> rb, roi_end |-> re] :
        sh \in [Axes -> 1..MaxExtent], bs \in [Axes -> 1..MaxBlockExtent],
        rb \in {None}, re \in {None}}
    \cup
    {g \in [shape : [Axes -> 1..MaxExtent], block_shape : [Axes -> 1..MaxBlockExtent],
            roi_begin : [Axes -> 0..(MaxExtent - 1)], roi_end : [Axes -> 1..MaxExtent]] :
        \A d \in Axes : g.roi_begin[d] < g.roi_end[d] /\ g.roi_end[d] <= g.shape[d]}

InitGrid ==
    /\ StageIdle
    /\ MergeIdle
    /\ hpc = "blocks_in_volume"
    /\ hIn \in GridInputs
    /\ hOut = [block_list |-> <<>>, blocks |-> <<>>]

\* run_impl: block_list = vu.blocks_in_volume(shape, block_shape, roi_begin, roi_end)
blocks_in_volume_call ==
    /\ hpc = "blocks_in_volume"
    /\ hOut' = [hOut EXCEPT !.block_list =
                    vu_blocks_in_volume(hIn.shape, hIn.block_shape,
                                        hIn.roi_begin, hIn.roi_end)]
    /\ hpc' = "getBlock"
    /\ UNCHANGED hIn
    /\ UNCHANGED <<mergeVars, stageVars>>

\* The job: blocking.getBlock(block_id) for the next id of its block list.
getBlock_call ==
    /\ hpc = "getBlock"
    /\ LET k == Len(hOut.blocks) + 1
       IN  /\ hOut' = [hOut EXCEPT !.blocks =
                          Append(@, getBlock(blocking(Origin, hIn.shape, hIn.block_shape),
                                             hOut.block_list[k]))]
           /\ hpc' = IF k = Len(hOut.block_list) THEN "done" ELSE "getBlock"
    /\ UNCHANGED hIn
    /\ UNCHANGED <<mergeVars, stageVars>>

NextGrid == blocks_in_volume_call \/ getBlock_call

SpecGrid == InitGrid /\ [][NextGrid]_vars

----------------------------------------------------------------------------
(* SpecHalo: _load_input, the halo-expanded and padded read of one block    *)
(* from the dataset of one scale                                            *)

MaxHalo == 2

ScaleFactors == {1, 2}
ScaleHalos == {0, 1}

\* One axis of a call: the dataset's extent at this scale, the scale factor,
\* and a block of the full-resolution grid that begins inside the dataset.
AxisInputs ==
    {a \in [shape : 1..MaxExtent, scale_factor : ScaleFactors,
            block_shape : 2..MaxBlockExtent, offset : 0..(2 * MaxExtent),
            halo : 0..MaxHalo, scale_halo : ScaleHalos] :
        /\ a.offset % a.block_shape = 0
        /\ a.offset \div a.scale_factor < a.shape}

\* The hand-computed example: scale factor 2, scale halo 1, halos 4 and 5,
\* blocks of extent 10 at offsets 10 and 20, a coarse dataset of extent 16.
HaloExample ==
    [shape |-> <<16, 16>>, offset |-> <<10, 20>>, block_shape |-> <<10, 10>>,
     halo |-> <<4, 5>>, scale_factor |-> <<2, 2>>, scale_halo |-> <<1, 1>>]

HaloInputs ==
    {[shape        |-> [d \in Axes |-> a[d].shape],
      offset       |-> [d \in Axes |-> a[d].offset],
      block_shape  |-> [d \in Axes |-> a[d].block_shape],
      halo         |-> [d \in Axes |-> a[d].halo],
      scale_factor |-> [d \in Axes |-> a[d].scale_factor],
      scale_halo   |-> [d \in Axes |-> a[d].scale_halo]] : a \in [Axes -> AxisInputs]}
    \cup {HaloExample}

\* The halo taken over to the coarse scale as it is.
this_halo_unscaled(halo, scale_factor) == halo

\* [v // sf for v, sf in zip(vec, scale_factor)]: this_offset, this_block_shape
floordiv(vec, scale_factor) == [d \in Axes |-> vec[d] \div scale_factor[d]]

\* this_halo = [ha // sf for ha, sf in zip(halo, scale_factor)]
this_halo(halo, scale_factor) == floordiv(halo, scale_factor)

\* starts = [off - ha - sh ...]
halo_starts(in) ==
    [d \in Axes |-> floordiv(in.offset, in.scale_factor)[d]
                      - this_halo(in.halo, in.scale_factor)[d] - in.scale_halo[d]]

\* stops = [off + bs + ha + sh ...]
halo_stops(in) ==
    [d \in Axes |-> floordiv(in.offset, in.scale_factor)[d]
                      + floordiv(in.block_shape, in.scale_factor)[d]
                      + this_halo(in.halo, in.scale_factor)[d] + in.scale_halo[d]]

\* No padding to the right, whatever the stops are.
pad_right_missing(stops, shape) == None

\* lines 214-215: pad_left stays None unless some start is negative.
pad_left_of(starts) ==
    IF \E d \in Axes : starts[d] < 0
    THEN [d \in Axes |-> IF starts[d] < 0 THEN -starts[d] ELSE 0]
    ELSE None

\* lines 219-220: pad_right stays None unless some stop exceeds the shape.
pad_right_of(stops, shape) ==
    IF \E d \in Axes : stops[d] > shape[d]
    THEN [d \in Axes |-> IF stops[d] > shape[d] THEN stops[d] - shape[d] ELSE 0]
    ELSE None

InitHalo ==
    /\ StageIdle
    /\ MergeIdle
    /\ hpc = "window"
    /\ hIn \in HaloInputs
    /\ hOut = <<>>

\* _load_input lines 200-207: the window at this scale, before clamping.
load_input_window ==
    /\ hpc = "window"
    /\ hOut' = [starts |-> halo_starts(hIn), stops |-> halo_stops(hIn)]
    /\ hpc' = "read"
    /\ UNCHANGED hIn
    /\ UNCHANGED <<mergeVars, stageVars>>

\* _load_input lines 209-233 for the window [starts0, stops0): the region
\* that is read, the padding, and the shape of the array that is returned.
load_input_padded(starts0, stops0, shape) ==
    LET pad_left  == pad_left_of(starts0)
        pad_right == pad_right_of(stops0, shape)
        starts == IF pad_left = None THEN starts0
                  ELSE [d \in Axes |-> Max({0, starts0[d]})]
        stops  == IF pad_right = None THEN stops0
                  ELSE [d \in Axes |-> Min(shape[d], stops0[d])]
        read   == [d \in Axes |-> stops[d] - starts[d]]     \* ds[bb].shape
        padded == pad_left # None \/ pad_right # None
        pl     == IF pad_left = None THEN Origin ELSE pad_left
        pr     == IF pad_right = None THEN Origin ELSE pad_right
    IN  [bb_start |-> starts, bb_stop |-> stops,
         pad_width |-> IF padded THEN [d \in Axes |-> <<pl[d], pr[d]>>]
                       ELSE None,
         data_shape |-> IF padded
                        THEN [d \in Axes |-> pl[d] + read[d] + pr[d]]
                        ELSE read]

\* _load_input lines 209-233: clamp the window to the dataset, read it, and
\* pad the array by what was clamped away.
load_input_read ==
    /\ hpc = "read"
    /\ LET r == load_input_padded(hOut.starts, hOut.stops, hIn.shape)
       IN  hOut' = [starts |-> hOut.starts, stops |-> hOut.stops,
                    bb_start |-> r.bb_start, bb_stop |-> r.bb_stop,
                    pad_width |-> r.pad_width, data_shape |-> r.data_shape]
    /\ hpc' = "done"
    /\ UNCHANGED hIn
    /\ UNCHANGED <<mergeVars, stageVars>>

NextHalo == load_input_window \/ load_input_read

SpecHalo == InitHalo /\ [][NextHalo]_vars

----------------------------------------------------------------------------
(* SpecConfig: one configuration of multiscale inference on its way through *)
(* the checks of run_impl, the checks of the job, and write_output of a     *)
(* block.  hIn holds the parameters read so far, hOut the output datasets.  *)

MaxScales == 3
MaxChannels == 3

Frameworks == {"pytorch", "inferno", "tensorflow", "caffe"}
Dtypes == {"uint8", "float32", "uint16"}

\* The task config's chunks: not given (None), or one extent.
ChunkConfigs == {[given |-> FALSE]} \cup {[given |-> TRUE, value |-> c] : c \in 1..MaxBlockExtent}

\* A value of the output_key dictionary: two numbers, or (one representative
\* of a malformed entry) a single number.
ChannelRanges == {<<a, b>> : a, b \in 0..MaxChannels} \cup {<<0>>}

\* output_params, one entry per output dataset.
ChannelMappings == [1..1 -> ChannelRanges] \cup [1..2 -> ChannelRanges]

\* What predict returns for a block: a 3-d array, or a 4-d array with a
\* leading channel axis.
Predictions ==
    {[ndim |-> 3, channels |-> 1]} \cup {[ndim |-> 4, channels |-> c] : c \in 1..MaxChannels}

InitConfig ==
    /\ StageIdle
    /\ MergeIdle
    /\ hpc = "run_impl"
    /\ hIn = [n_retries |-> 0]
    /\ hOut = <<>>

\* run_impl lines 64-76: assert framework in (...), assert dtype in (...)
run_impl_framework_dtype ==
    /\ hpc = "run_impl"
    /\ \E fw \in Frameworks, dt \in Dtypes :
          /\ hIn' = hIn @@ [framework |-> fw, dtype |-> dt]
          /\ hpc' = IF fw \in {"pytorch", "inferno"} /\ dt \in {"uint8", "float32"}
                    THEN "scales" ELSE "rejected"
    /\ UNCHANGED hOut
    /\ UNCHANGED <<mergeVars, stageVars>>

\* run_impl lines 79-87: every input scale is in the group, and there is one
\* scale halo and one scale factor per scale after the first.
run_impl_scales ==
    /\ hpc = "scales"
    /\ \E n_scales \in 1..MaxScales, in_g \in BOOLEAN,
          n_halos \in 0..(MaxScales - 1), n_factors \in 0..(MaxScales - 1) :
          /\ hIn' = hIn @@ [n_scales |-> n_scales, scales_in_g |-> in_g,
                            n_scale_halos |-> n_halos, n_scale_factors |-> n_factors]
          /\ hpc' = IF in_g /\ n_halos = n_scales - 1 /\ n_factors = n_scales - 1
                    THEN "chunks" ELSE "rejected"
    /\ UNCHANGED hOut
    /\ UNCHANGED <<mergeVars, stageVars>>

\* run_impl lines 90-93: chunks default to half the block shape; the block
\* shape must be a multiple of the chunks.
run_impl_chunks ==
    /\ hpc = "chunks"
    /\ \E bs \in 2..MaxBlockExtent, cc \in ChunkConfigs :
          LET chunks == IF cc.given THEN cc.value ELSE bs \div 2
          IN  /\ hIn' = hIn @@ [block_shape |-> bs, chunks |-> chunks]
              /\ hpc' = IF bs % chunks = 0 THEN "outputs" ELSE "rejected"
    /\ UNCHANGED hOut
    /\ UNCHANGED <<mergeVars, stageVars>>

\* assert len(out_channels) == 2; n_channels = stop - start; assert n_channels > 0
out_channels_ok(out_channels) ==
    Len(out_channels) = 2 /\ out_channels[2] - out_channels[1] > 0

\* The dataset required for one output: a channel axis only for several
\* channels without accumulation.
output_dataset(out_channels, channel_accumulation) ==
    LET n_channels == out_channels[2] - out_channels[1]
    IN  [ndim |-> IF n_channels > 1 /\ channel_accumulation = "None" THEN 4 ELSE 3,
         channels |-> n_channels]

\* run_impl lines 97-117: the checks on every entry of output_key, and
\* require_dataset for the entries up to the first that fails them.
run_impl_outputs ==
    /\ hpc = "outputs"
    /\ \E cm \in ChannelMappings, acc \in {"None", "max"} :
          LET bad   == {k \in 1..Len(cm) : ~out_channels_ok(cm[k])}
              made  == IF bad = {} THEN Len(cm)
                       ELSE (CHOOSE k \in bad : \A l \in bad : k <= l) - 1
          IN  /\ hIn' = hIn @@ [channel_mapping |-> cm, channel_accumulation |-> acc]
              /\ hOut' = [k \in 1..made |-> output_dataset(cm[k], acc)]
              /\ hpc' = IF bad = {} THEN "mask" ELSE "rejected"
    /\ UNCHANGED <<mergeVars, stageVars>>

\* run_impl lines 127-141: a mask path needs a mask key; then the block list
\* is planned and the jobs are prepared and submitted.
run_impl_submit ==
    /\ hpc = "mask"
    /\ \E mask_path \in BOOLEAN, mask_key \in BOOLEAN :
          /\ hIn' = hIn @@ [mask_path |-> mask_path, mask_key |-> mask_key]
          /\ hpc' = IF mask_path /\ ~mask_key THEN "rejected" ELSE "submitted"
    /\ UNCHANGED hOut
    /\ UNCHANGED <<mergeVars, stageVars>>

\* The job, lines 361-367 and 399-402: with the first scale prepended there
\* must be exactly three scale factors and three scale halos, and the
\* framework must have a predictor.
multiscale_inference_config ==
    /\ hpc = "submitted"
    /\ hpc' = IF /\ hIn.n_scale_factors + 1 = 3
                 /\ hIn.n_scale_halos + 1 = 3
                 /\ hIn.framework \in {"pytorch", "inferno", "tensorflow"}
              THEN "running" ELSE "job_rejected"
    /\ UNCHANGED <<hIn, hOut>>
    /\ UNCHANGED <<mergeVars, stageVars>>

\* output[chan_start:chan_stop]: the channels of the prediction in the range.
sliced_channels(pred, chann_mapping) ==
    Max({0, Min(chann_mapping[2], pred.channels) - Min(chann_mapping[1], pred.channels)})

\* write_output lines 304-329 for one output dataset: "AssertionError",
\* "ValueError" (reduction of no channel), "mismatch" (the array does not have
\* the shape of the region it is assigned to), or "ok".
write_one(pred, dso, chann_mapping, channel_accumulation) ==
    LET width  == chann_mapping[2] - chann_mapping[1]
        k      == IF pred.ndim = 4 THEN sliced_channels(pred, chann_mapping) ELSE 1
        sliced == IF pred.ndim = 4 /\ k # 1 THEN 4 ELSE 3      \* after squeeze()
        final  == IF channel_accumulation # "None" /\ sliced = 4 THEN 3 ELSE sliced
    IN  IF dso.ndim = 3 /\ channel_accumulation = "None" /\ width # 1
        THEN "AssertionError"
        ELSE IF dso.ndim = 4 /\ (pred.ndim # 4 \/ width # dso.channels)
        THEN "AssertionError"
        ELSE IF channel_accumulation # "None" /\ sliced = 4 /\ k = 0
        THEN "ValueError"
        ELSE IF \/ dso.ndim = 3 /\ final = 3
                \/ dso.ndim = 4 /\ final = 4 /\ k = dso.channels
        THEN "ok"
        ELSE "mismatch"

\* write_output of one block, lines 287-331: the prediction is sliced by the
\* channel mapping and written to every output dataset in turn.  Assigning an
\* array of another shape to a region either raises or is broadcast by the
\* storage.
write_output_channels ==
    /\ hpc = "running"
    /\ \E pred \in Predictions :
          LET res == [k \in 1..Len(hOut) |->
                         write_one(pred, hOut[k], hIn.channel_mapping[k],
                                   hIn.channel_accumulation)]
          IN  /\ hIn' = hIn @@ [prediction |-> pred]
              /\ \/ /\ pred.ndim = 3 /\ Len(hOut) # 1        \* assert len(ds_out) == 1
                    /\ hpc' = "block_failed"
                 \/ /\ ~(pred.ndim = 3 /\ Len(hOut) # 1)
                    /\ \E k \in 1..Len(hOut) : res[k] \in {"AssertionError", "ValueError"}
                    /\ hpc' = "block_failed"
                 \/ /\ ~(pred.ndim = 3 /\ Len(hOut) # 1)
                    /\ \A k \in 1..Len(hOut) : res[k] \in {"ok", "mismatch"}
                    /\ \/ hpc' = "written"
                       \/ /\ \E k \in 1..Len(hOut) : res[k] = "mismatch"
                          /\ hpc' = "block_failed"
    /\ UNCHANGED hOut
    /\ UNCHANGED <<mergeVars, stageVars>>

NextConfig ==
    \/ run_impl_framework_dtype
    \/ run_impl_scales
    \/ run_impl_chunks
    \/ run_impl_outputs
    \/ run_impl_submit
    \/ multiscale_inference_config
    \/ write_output_channels

SpecConfig == InitConfig /\ [][NextConfig]_vars

----------------------------------------------------------------------------
(* SpecPipeline: the thread pool of one job of multiscale inference.        *)
(* _run_inference builds one chain of five delayed calls per block and      *)
(* hands all chains to dask.compute(scheduler='threads',                    *)
(* num_workers=n_threads): a call is run by a free worker thread once the   *)
(* call it takes its argument from has returned.                            *)

MaxThreads == 2

\* tz.pipe(block_id, load_input, preprocess_impl, predict_impl, write_output, log2)
Stages == <<"load_input", "preprocess_impl", "predict_impl", "write_output", "log2">>

\* hIn:  n_threads and the job's block list;
\* hpc:  the state of dask.compute, per block how many calls of its chain
\*       have been started, and the blocks whose chain has raised;
\* hOut: per block, the calls of its chain that have returned, in the order
\*       of their return.
InitPipeline ==
    /\ StageIdle
    /\ MergeIdle
    /\ hIn \in [n_threads : 1..MaxThreads, block_list : {blocks_in_volume}]
    /\ hpc = [compute |-> "running", started |-> [b \in AllBlocks |-> 0],
              raised |-> {}]
    /\ hOut = [b \in AllBlocks |-> <<>>]

\* The calls that a worker thread is executing.
Executing == {<<b, k>> \in AllBlocks \X (1..Len(Stages)) :
                 b \notin hpc.raised /\ Len(hOut[b]) < k /\ k <= hpc.started[b]}

\* A call is handed to the pool without regard to the call before it.
chain_ready_unordered(b) == TRUE

\* The call that the next call of b's chain takes its argument from has
\* returned (the first call takes the block id).
chain_ready(b) == Len(hOut[b]) = hpc.started[b]

\* A thread of the pool is idle.
worker_free == Cardinality(Executing) < hIn.n_threads

\* A worker thread starts the next call of the chain of block b.
task_start(b) ==
    /\ hpc.compute = "running"
    /\ b \in Range(hIn.block_list)
    /\ hpc.started[b] < Len(Stages)
    /\ chain_ready(b)
    /\ worker_free
    /\ hpc' = [hpc EXCEPT !.started[b] = @ + 1]
    /\ UNCHANGED <<hIn, hOut>>
    /\ UNCHANGED <<mergeVars, stageVars>>

\* The call that block b's chain is executing returns.  The threads of the
\* pool outlive an exception of another call until the process ends.
task_return(b) ==
    /\ hpc.compute \in {"running", "raised"}
    /\ \E k \in 1..Len(Stages) : <<b, k>> \in Executing
    /\ hOut' = [hOut EXCEPT ![b] = Append(@, Stages[Len(@) + 1])]
    /\ UNCHANGED <<hIn, hpc>>
    /\ UNCHANGED <<mergeVars, stageVars>>

\* The call that block b's chain is executing raises: dask.compute re-raises
\* the exception in the main thread and no further call is started.
task_raise(b) ==
    /\ hpc.compute \in {"running", "raised"}
    /\ \E k \in 1..Len(Stages) : <<b, k>> \in Executing
    /\ hpc' = [hpc EXCEPT !.compute = "raised", !.raised = @ \cup {b}]
    /\ UNCHANGED <<hIn, hOut>>
    /\ UNCHANGED <<mergeVars, stageVars>>

\* success = dask.compute(*results, ...): every chain has run to its end.
dask_compute ==
    /\ hpc.compute = "running"
    /\ \A b \in Range(hIn.block_list) : Len(hOut[b]) = Len(Stages)
    /\ hpc' = [hpc EXCEPT !.compute = "returned"]
    /\ UNCHANGED <<hIn, hOut>>
    /\ UNCHANGED <<mergeVars, stageVars>>

NextPipeline ==
    \/ \E b \in AllBlocks : task_start(b) \/ task_return(b) \/ task_raise(b)
    \/ dask_compute

SpecPipeline == InitPipeline /\ [][NextPipeline]_vars

----------------------------------------------------------------------------
(* SpecCrop: the array of one block of multiscale inference, from the       *)
(* halo-expanded read at the first scale (scale factor 1, no scale halo)    *)
(* through the predictor's crop to write_output.  Only shapes are followed: *)
(* a shape is the tuple of an array's extents, the channel axis first when  *)
(* there is one; hOut.origin is the volume coordinate of the array's first  *)
(* element.                                                                 *)

\* With two axes for the three of the code, an array of n extents stands for
\* one of n + 1 dimensions.
ndim(a) == Len(a) + 1

\* numpy's squeeze(): every axis of extent 1 is removed.
squeeze(a) == SelectSeq(a, LAMBDA e : e # 1)

\* PytorchPredicter.crop(out, halo): slice(ha, sh - ha) on every spatial axis.
crop(o, halo) ==
    LET shape == IF ndim(o) = 3 THEN o ELSE Tail(o)
        bb    == [d \in 1..Min(Len(halo), Len(shape)) |->
                     Max({0, shape[d] - halo[d] - halo[d]})]
    IN  IF ndim(o) = 4 THEN <<o[1]>> \o bb ELSE bb

\* vu.block_to_bb widened by one voxel on every side.
block_to_bb_widened(block) ==
    [begin |-> [d \in Axes |-> block.begin[d] - 1],
     end   |-> [d \in Axes |-> block.end[d] + 1]]

\* vu.block_to_bb(block): the slices begin:end of the block on every axis.
block_to_bb(block) == [begin |-> block.begin, end |-> block.end]

\* write_output lines 296-301: output[:ash] on every spatial axis when the
\* block is not of the full block shape.
crop_to_actual_shape(output, actual_shape, block_shape) ==
    IF actual_shape # block_shape
    THEN LET k == Len(output) - Len(actual_shape)        \* 1 with a channel axis
         IN  [i \in 1..Len(output) |->
                 IF i <= k THEN output[i] ELSE Min(actual_shape[i - k], output[i])]
    ELSE output

InitCrop ==
    /\ StageIdle
    /\ MergeIdle
    /\ hpc = "load_input"
    /\ hIn \in {g \in [shape : [Axes -> 1..MaxExtent],
                       block_shape : [Axes -> 2..MaxBlockExtent],
                       halo : [Axes -> 0..MaxHalo],
                       block_id : 0..(MaxExtent * MaxExtent - 1)] :
                   g.block_id < numberOfBlocks(blocking(Origin, g.shape, g.block_shape))}
    /\ hOut = <<>>

\* load_input, lines 253-265, for the first scale: the block's window with
\* the halo, read and padded by _load_input.
load_inputs ==
    /\ hpc = "load_input"
    /\ LET block == getBlock(blocking(Origin, hIn.shape, hIn.block_shape), hIn.block_id)
           in    == [shape |-> hIn.shape, offset |-> block.begin,
                     block_shape |-> hIn.block_shape, halo |-> hIn.halo,
                     scale_factor |-> [d \in Axes |-> 1],
                     scale_halo |-> [d \in Axes |-> 0]]
           r     == load_input_padded(halo_starts(in), halo_stops(in), hIn.shape)
       IN  hOut' = [data |-> r.data_shape, origin |-> halo_starts(in)]
    /\ hpc' = "predict_impl"
    /\ UNCHANGED hIn
    /\ UNCHANGED <<mergeVars, stageVars>>

\* predict_impl with PytorchPredicter.__call__: the network returns an array
\* of the input's spatial shape with some number of channels, apply_model
\* squeezes it (line 96) and crop takes the halo off.
predict_crop ==
    /\ hpc = "predict_impl"
    /\ \E channels \in 1..MaxChannels :
          /\ hIn' = hIn @@ [channels |-> channels]
          /\ hOut' = [data   |-> crop(squeeze(<<channels>> \o hOut.data), hIn.halo),
                      origin |-> [d \in Axes |-> hOut.origin[d] + hIn.halo[d]]]
    /\ hpc' = "write_output"
    /\ UNCHANGED <<mergeVars, stageVars>>

\* write_output, lines 290-329, with one output dataset that takes all
\* channels of the prediction.  An array that has not the shape of the region
\* it is assigned to is reshaped by the storage or makes the write raise.
write_output_crop ==
    /\ hpc = "write_output"
    /\ \E channel_accumulation \in {"None", "max"} :
          LET block  == getBlock(blocking(Origin, hIn.shape, hIn.block_shape), hIn.block_id)
              bb     == block_to_bb(block)
              actual_shape  == [d \in Axes |-> bb.end[d] - bb.begin[d]]
              output == crop_to_actual_shape(hOut.data, actual_shape, hIn.block_shape)
              chann_mapping == <<0, IF ndim(output) = 4 THEN output[1] ELSE 1>>
              dso    == output_dataset(chann_mapping, channel_accumulation)
              sliced == IF ndim(output) = 4 THEN squeeze(output) ELSE output
              channel_output ==
                  IF channel_accumulation # "None" /\ ndim(sliced) = 4
                  THEN Tail(sliced) ELSE sliced
              region == IF dso.ndim = 4 THEN <<dso.channels>> \o actual_shape
                                        ELSE actual_shape
          IN  /\ hIn' = hIn @@ [channel_accumulation |-> channel_accumulation]
              /\ hOut' = [data |-> channel_output, origin |-> hOut.origin,
                          out_bb |-> bb, region |-> region]
              /\ \/ hpc' = "written"
                 \/ channel_output # region /\ hpc' = "block_failed"
    /\ UNCHANGED <<mergeVars, stageVars>>

NextCrop == load_inputs \/ predict_crop \/ write_output_crop

SpecCrop == InitCrop /\ [][NextCrop]_vars

----------------------------------------------------------------------------
(* SpecWriters: the writes of one attempt to an output dataset.  Every job  *)
(* of the attempt writes, for each block of its shard, the bounding box of  *)
(* blocking.getBlock(block_id); jobs are separate processes and the blocks  *)
(* of a job are written by the threads of its pool, so any two writes may   *)
(* run at the same time.                                                    *)

\* hIn:  shape, block shape and roi of the stage;
\* hOut: the attempt's block list and its shards;
\* hpc:  per job and block of its shard, "todo" | "writing" | "written".
InitWriters ==
    /\ StageIdle
    /\ MergeIdle
    /\ hIn \in {g \in GridInputs : \A d \in Axes : g.block_shape[d] >= 2}
    /\ LET bl == vu_blocks_in_volume(hIn.shape, hIn.block_shape,
                                     hIn.roi_begin, hIn.roi_end)
       IN  hOut = [block_list |-> bl,
                   job_blocks |-> prepare_jobs(Min(Len(bl), max_jobs), bl)]
    /\ hpc = [j \in DOMAIN hOut.job_blocks |->
                 [b \in Range(hOut.job_blocks[j]) |-> "todo"]]

\* The region of the output dataset that the pipeline of block b writes:
\* bb = vu.block_to_bb(blocking.getBlock(block_id)); ds_out[bb] = ...
written_bb(b) ==
    block_to_bb(getBlock(blocking(Origin, hIn.shape, hIn.block_shape), b))

\* A thread of job j begins the write of block b: ds_out[bb] = ...
write_begin(j, b) ==
    /\ j \in DOMAIN hpc /\ b \in DOMAIN hpc[j]
    /\ hpc[j][b] = "todo"
    /\ hpc' = [hpc EXCEPT ![j][b] = "writing"]
    /\ UNCHANGED <<hIn, hOut>>
    /\ UNCHANGED <<mergeVars, stageVars>>

\* The write of block b by job j returns.
write_end(j, b) ==
    /\ j \in DOMAIN hpc /\ b \in DOMAIN hpc[j]
    /\ hpc[j][b] = "writing"
    /\ hpc' = [hpc EXCEPT ![j][b] = "written"]
    /\ UNCHANGED <<hIn, hOut>>
    /\ UNCHANGED <<mergeVars, stageVars>>

NextWriters ==
    \E j \in 0..(MaxJobs - 1), b \in 0..(MaxExtent * MaxExtent - 1) :
        write_begin(j, b) \/ write_end(j, b)

SpecWriters == InitWriters /\ [][NextWriters]_vars

----------------------------------------------------------------------------
(* SpecIdentity: the voxel values of the end-to-end example.  A volume of   *)
(* 20 x 20 x 20 in blocks of 10 x 10 x 10 goes through one job of           *)
(* multiscale inference whose network returns its input unchanged, with     *)
(* halo (0, 0, 0), a single float32 output dataset and no mask.  The blocks *)
(* are followed one after the other; a block's array is followed by two of  *)
(* its voxels, whose raw values are drawn when the block is loaded.         *)

MaxVoxel == 2

\* vu.blocks_in_volume(shape, block_shape) of a volume with three axes.
blocks_in_volume_3d(shape, block_shape) ==
    LET n(d) == (shape[d] + block_shape[d] - 1) \div block_shape[d]
    IN  [i \in 1..(n(1) * n(2) * n(3)) |-> i - 1]

\* The float num / den (den > 0), and nan (den = 0).
Float(num, den) == [num |-> num, den |-> den]

\* The array handed on as it is.
normalize_skipped(x) == [i \in 1..Len(x) |-> Float(x[i], 1)]

\* normalize(data, eps=1e-4, mean=None, std=None, filter_zeros=True) of an
\* array of two voxels: (data - mean) / (std + eps) with the mean and the
\* standard deviation of the non-zero voxels.  With n non-zero voxels of sum
\* s and n * std = dev this is 10^4 * (n * data - s) / (10^4 * dev + n); the
\* mean of no voxel is nan.
normalize(x) ==
    LET data_pre == SelectSeq(x, LAMBDA v : v # 0)
        n   == Len(data_pre)
        s   == SumSeq(data_pre)
        dev == IF n < 2 THEN 0
               ELSE Max({data_pre[1] - data_pre[2], data_pre[2] - data_pre[1]})
    IN  [i \in 1..Len(x) |->
            IF n = 0 THEN Float(0, 0)
            ELSE Float(10000 * (n * x[i] - s), 10000 * dev + n)]

InitIdentity ==
    /\ StageIdle
    /\ MergeIdle
    /\ hpc = "load_input"
    /\ hIn = [block_list |-> blocks_in_volume_3d(<<20, 20, 20>>, <<10, 10, 10>>),
              halo |-> <<0, 0, 0>>]
    /\ hOut = [k |-> 1, input |-> <<>>, x |-> <<>>, written |-> <<>>, n_marked |-> 0]

\* load_input of the k-th block of the list: with halo 0 the block itself.
identity_load_input ==
    /\ hpc = "load_input"
    /\ hOut.k <= Len(hIn.block_list)
    /\ \E raw \in [1..2 -> 0..MaxVoxel] :
          hOut' = [hOut EXCEPT !.input = raw, !.x = raw, !.written = <<>>]
    /\ hpc' = "preprocess_impl"
    /\ UNCHANGED hIn
    /\ UNCHANGED <<mergeVars, stageVars>>

\* preprocess_impl: preprocess_torch with its defaults, normalize(cast(data));
\* the cast to float32 keeps the values.
identity_preprocess_impl ==
    /\ hpc = "preprocess_impl"
    /\ hOut' = [hOut EXCEPT !.x = normalize(hOut.x)]
    /\ hpc' = "predict_impl"
    /\ UNCHANGED hIn
    /\ UNCHANGED <<mergeVars, stageVars>>

\* predict_impl: the network returns its input, and the crop by halo 0 takes
\* nothing off.
identity_predict_impl ==
    /\ hpc = "predict_impl"
    /\ hpc' = "write_output"
    /\ UNCHANGED <<hIn, hOut>>
    /\ UNCHANGED <<mergeVars, stageVars>>

\* write_output: a 3-d array of the full block shape is written as it is to
\* the block's region of the float32 dataset.
identity_write_output ==
    /\ hpc = "write_output"
    /\ hOut' = [hOut EXCEPT !.written = hOut.x]
    /\ hpc' = "log2"
    /\ UNCHANGED hIn
    /\ UNCHANGED <<mergeVars, stageVars>>

\* log2: the block is marked; the next block of the list follows.
identity_log2 ==
    /\ hpc = "log2"
    /\ hOut' = [hOut EXCEPT !.n_marked = @ + 1, !.k = @ + 1]
    /\ hpc' = IF hOut.k = Len(hIn.block_list) THEN "done" ELSE "load_input"
    /\ UNCHANGED hIn
    /\ UNCHANGED <<mergeVars, stageVars>>

NextIdentity ==
    \/ identity_load_input
    \/ identity_preprocess_impl
    \/ identity_predict_impl
    \/ identity_write_output
    \/ identity_log2

SpecIdentity == InitIdentity /\ [][NextIdentity]_vars

----------------------------------------------------------------------------
(* SpecAttempts: the attempts of one sub_solutions stage and the ids they   *)
(* leave in the output.  The stage has a single job; hIn holds the stored   *)
(* nodes and sub-results of the blocks of the volume, hOut the retry        *)
(* counter, the attempt's block list, the ids that each block's region of   *)
(* the output holds, and the Success markers.                               *)

InitAttempts ==
    /\ StageIdle
    /\ MergeIdle
    /\ hpc = "submitted"
    /\ hIn \in UNION {[1..n -> {inp \in BlockInputs :         \* read_subres accepts it
                                    read_subres(inp) # AssertionError}] :
                          n \in 1..MaxMergeBlocks}
    /\ hOut = [n_retries |-> 0,
               block_list |-> [i \in 1..Len(hIn) |-> i],
               written |-> [i \in 1..Len(hIn) |-> {}],
               success |-> {}]

\* The job of one attempt, sub_solutions lines 213-270 with scale 1 (no
\* initial node labeling): _read_subresults over the attempt's block list,
\* then _write_block_res for every kept block; each write either puts the
\* values of the block's dictionary into the block's region and marks the
\* block, or raises and leaves the region as it was.
sub_solutions_attempt ==
    /\ hpc = "submitted"
    /\ LET bl   == hOut.block_list
           res  == [k \in 1..Len(bl) |-> read_subres(hIn[bl[k]])]
           kept == KeptIndices([k \in 1..Len(bl) |-> res[k].tag = "res"], 1)
           offs == block_offsets([k \in 1..Len(kept) |-> res[kept[k]].off])
           dict(k) == block_result_dict(res[kept[k]].nodes,
                                        add_offset(res[kept[k]].subres, offs[k]))
       IN  IF Len(kept) = 0                      \* block_offsets[0] = 0 raises
           THEN UNCHANGED hOut
           ELSE \E ok \in SUBSET (1..Len(kept)) :
                   hOut' = [hOut EXCEPT
                       !.written = [p \in 1..Len(hIn) |->
                           IF \E k \in ok : bl[kept[k]] = p
                           THEN LET k == CHOOSE k \in ok : bl[kept[k]] = p
                                IN  {dict(k)[x] : x \in DOMAIN dict(k)}
                           ELSE hOut.written[p]],
                       !.success = @ \cup {bl[kept[k]] : k \in ok}]
    /\ hpc' = "job_ended"
    /\ UNCHANGED hIn
    /\ UNCHANGED <<mergeVars, stageVars>>

\* check_jobs and, for a retry, the planning of run_impl: the blocks of the
\* attempt without Success marker are the next attempt's block_list while the
\* budget lasts; clean_up_for_retry of SubSolutionsBase leaves the output in
\* place.
check_jobs_attempt ==
    /\ hpc = "job_ended"
    /\ LET failed_blocks == SelectSeq(hOut.block_list, LAMBDA p : p \notin hOut.success)
       IN  IF failed_blocks = <<>>
           THEN hpc' = "Completed" /\ UNCHANGED hOut
           ELSE IF hOut.n_retries < max_num_retries
           THEN /\ hpc' = "submitted"
                /\ hOut' = [hOut EXCEPT !.n_retries = @ + 1,
                                        !.block_list = failed_blocks]
           ELSE hpc' = "Failed" /\ UNCHANGED hOut
    /\ UNCHANGED hIn
    /\ UNCHANGED <<mergeVars, stageVars>>

NextAttempts == sub_solutions_attempt \/ check_jobs_attempt

SpecAttempts == InitAttempts /\ [][NextAttempts]_vars

----------------------------------------------------------------------------
(* SpecFilter: the voxels of one job of background_size_filter.  The volume *)
(* is a row of two blocks of two voxels; hIn holds the input labels, the    *)
(* ids to discard, whether the stage works in place, and what the output    *)
(* dataset held before the job; hOut holds the output dataset and the       *)
(* blocks for which apply_block has returned.                               *)

\* The voxels of block b.
block_voxels(b) == {2 * b + 1, 2 * b + 2}

InitFilter ==
    /\ StageIdle
    /\ MergeIdle
    /\ hpc = "apply_block"
    /\ hIn \in [ds_in : [1..4 -> 0..MaxVoxel],
                discard_ids : SUBSET (0..MaxVoxel),
                in_place : BOOLEAN,
                prior : [1..4 -> {0, 1}],
                block_list : {<<0, 1>>, <<1, 0>>, <<1>>}]
    /\ hIn.in_place => hIn.prior = [v \in 1..4 |-> 0]
    /\ hOut = [ds_out |-> IF hIn.in_place THEN hIn.ds_in ELSE hIn.prior,
               k |-> 1,
               returned |-> {}]

\* apply_block lines 110-130 for the next block of the job's list: nothing
\* is written for a block whose labels sum to 0; else the labels, with the
\* discarded ids set to 0, are written to the block's region.  In place,
\* ds_in is the output dataset itself.
apply_block ==
    /\ hpc = "apply_block"
    /\ LET b == hIn.block_list[hOut.k]
           ds_in == IF hIn.in_place THEN hOut.ds_out ELSE hIn.ds_in
           sum == SumSeq([i \in 1..2 |-> ds_in[2 * b + i]])       \* np.sum(labels)
           labels == [v \in block_voxels(b) |->
                         IF ds_in[v] \in hIn.discard_ids THEN 0 ELSE ds_in[v]]
       IN  /\ hOut' = [ds_out |-> IF sum = 0 THEN hOut.ds_out
                                  ELSE [v \in 1..4 |-> IF v \in block_voxels(b)
                                                       THEN labels[v] ELSE hOut.ds_out[v]],
                       k |-> hOut.k + 1,
                       returned |-> hOut.returned \cup {b}]
           /\ hpc' = IF hOut.k = Len(hIn.block_list) THEN "done" ELSE "apply_block"
    /\ UNCHANGED hIn
    /\ UNCHANGED <<mergeVars, stageVars>>

NextFilter == apply_block

SpecFilter == InitFilter /\ [][NextFilter]_vars

----------------------------------------------------------------------------
(* SpecLock: the worker threads of one job of multiscale inference at the   *)
(* predictor.  predict_impl calls the predictor, whose apply_model runs     *)
(* under "with self.lock", the one lock made in set_up.  hpc holds where    *)
(* each thread is, hOut the holder of the lock (0: free), the block each    *)
(* thread works on, the blocks still to predict and those predicted, and    *)
(* whether dask.compute has seen an exception.  A lock that                 *)
(* is free is handed to a waiting thread, and a thread inside apply_model   *)
(* leaves it (FairSpecLock): a step that can be taken is eventually taken.  *)

Threads == 1..MaxThreads

InitLock ==
    /\ StageIdle
    /\ MergeIdle
    /\ hIn \in [n_threads : Threads, n_blocks : 1..NBlocks]
    /\ hpc = [t \in Threads |-> "idle"]
    /\ hOut = [lock |-> 0, block |-> [t \in Threads |-> -1],
               todo |-> 0..(hIn.n_blocks - 1), predicted |-> {}, raised |-> FALSE]

\* predict_impl of a block whose input is ready, on a free worker thread:
\* predict(data) reaches "with self.lock" of apply_model.  After an exception dask starts
\* no further call.
call_predicter(t) ==
    /\ t <= hIn.n_threads
    /\ hpc[t] = "idle"
    /\ ~hOut.raised
    /\ hpc' = [hpc EXCEPT ![t] = "waiting"]
    /\ \E b \in hOut.todo :
          hOut' = [hOut EXCEPT !.todo = @ \ {b}, !.block[t] = b]
    /\ UNCHANGED hIn
    /\ UNCHANGED <<mergeVars, stageVars>>

\* self.lock.__enter__: the thread takes the lock when it is free.
lock_acquire(t) ==
    /\ hpc[t] = "waiting"
    /\ hOut.lock = 0
    /\ hpc' = [hpc EXCEPT ![t] = "inside"]
    /\ hOut' = [hOut EXCEPT !.lock = t]
    /\ UNCHANGED hIn
    /\ UNCHANGED <<mergeVars, stageVars>>

\* An exit that leaves the lock with the thread.
lock_on_exit_held(t) == t

\* self.lock.__exit__: the with statement releases the lock on every way out
\* of its body.
lock_on_exit(t) == 0

\* apply_model lines 88-101 inside the lock: the data goes to the device and
\* the model runs; the body returns, or the model (or the TypeError of line
\* 100) raises.
apply_model(t) ==
    /\ hpc[t] = "inside"
    /\ hpc' = [hpc EXCEPT ![t] = "idle"]
    /\ \/ hOut' = [hOut EXCEPT !.lock = lock_on_exit(t), !.block[t] = -1,
                                !.predicted = @ \cup {hOut.block[t]}]
       \/ hOut' = [hOut EXCEPT !.lock = lock_on_exit(t), !.block[t] = -1,
                                !.raised = TRUE]
    /\ UNCHANGED hIn
    /\ UNCHANGED <<mergeVars, stageVars>>

NextLock ==
    \E t \in Threads :
        \/ call_predicter(t)
        \/ lock_acquire(t)
        \/ apply_model(t)

SpecLock == InitLock /\ [][NextLock]_vars

\* SpecLock with a lock that is handed on and threads that keep running.
FairSpecLock == SpecLock /\ WF_vars(NextLock)

----------------------------------------------------------------------------
(* Claims about a stage invocation (checked under Spec) *)

\* The block's mask region is entirely false (multiscale inference).
MaskedOut(b) ==
    task = "multiscale_inference" /\ mask # "None" /\ mask_sum[b] = 0

\* The pipeline has no write to perform for the block: it is masked out, or
\* apply_block finds only the ignore label in it.
NothingToWrite(b) ==
    \/ MaskedOut(b)
    \/ task = "background_size_filter" /\ labels_sum[b] = 0

\* C1 (as stated): a block has a Success marker only when its output write
\* has completed, and a block whose pipeline raised has no Success marker.
C1_MarkedOnlyAfterWrite ==
    \A b \in AllBlocks :
        /\ b \in block_success => "write" \in calls[b] /\ out[b] = "full"
        /\ pc[b] = "failed" => b \notin block_success

\* C1 (amended): a block has a Success marker only when every output write
\* its pipeline performs has completed -- its region is fully written, or the
\* pipeline performs no write for it (masked-out block, all-ignore block) --
\* and a block whose pipeline raised has no Success marker.
C1_MarkedOnlyAfterItsWrites ==
    \A b \in AllBlocks :
        /\ b \in block_success =>
              \/ "write" \in calls[b] /\ out[b] = "full"
              \/ NothingToWrite(b) /\ "write" \notin calls[b]
        /\ pc[b] = "failed" => b \notin block_success

\* C1 witness: one block is marked after its completed write while the write
\* of another block has raised and left its region written in part.
C1_Witness ==
    \E b, c \in AllBlocks :
        /\ b \in block_success /\ out[b] = "full"
        /\ pc[c] = "failed" /\ "write" \in calls[c] /\ out[c] = "partial"

\* C2: the block list of a retry attempt is exactly the blocks of the failed
\* attempt without a Success marker; a block with a Success marker keeps its
\* marker, its output region and its finished pipeline in every later step;
\* and a stage that completes after a retry has marked every block.
C2_RetryIdempotence ==
    /\ [][(stage = "Planned" /\ stage' = "AwaitingCompletion" /\ n_retries > 0)
             => block_list' = UnmarkedOf(block_list)]_vars
    /\ [][\A b \in block_success :
             /\ b \in block_success'
             /\ out'[b] = out[b]
             /\ pc'[b] = pc[b]
             /\ calls'[b] = calls[b]]_vars
    /\ [](stage = "Completed" /\ n_retries > 0 => block_success = AllBlocks)

\* C2 witness: a stage has completed after a retry that re-ran only a part of
\* the blocks.
C2_Witness ==
    /\ stage = "Completed"
    /\ n_retries > 0
    /\ Len(block_list) < NBlocks
    /\ block_success = AllBlocks

\* C3: a stage is Completed only with a Success marker for every block, and
\* a check that finds unmarked blocks with the retry budget used up (or retry
\* not allowed) ends the stage in the fatal state.
C3_NoSilentPartialSuccess ==
    /\ [](stage = "Completed" => \A b \in AllBlocks : b \in block_success)
    /\ [][(/\ stage = "AwaitingCompletion"
           /\ stage' # "AwaitingCompletion"
           /\ UnmarkedOf(block_list) # <<>>
           /\ ~(allow_retry /\ n_retries < max_num_retries))
             => stage' = "Failed"]_vars

\* C3 witness: the retry budget is used up, some blocks are marked and some
\* are not, and the stage has ended in the fatal state.
C3_Witness ==
    /\ stage = "Failed"
    /\ allow_retry
    /\ n_retries = max_num_retries
    /\ block_success # {}
    /\ block_success # AllBlocks

\* The blocks a job runs a pipeline for.
PipelineBlocks(j) ==
    IF task = "sub_solutions" THEN KeptBlocks(j) ELSE Range(job_blocks[j])

JobEnded(j) == job_state[j] \in {"success", "failed"}

\* C4 (as stated): when the pipeline of one block of a job raises, every
\* other block of the job is still processed to its own outcome.
C4_FailureIsolation ==
    \A j \in Jobs :
        (JobEnded(j) /\ \E b \in PipelineBlocks(j) : pc[b] = "failed")
            => \A c \in PipelineBlocks(j) : pc[c] \in {"marked", "failed"}

\* C5: a job logs its success only if no block of its shard raised and every
\* block it runs a pipeline for is marked; a job with a raised block ends
\* failed.
C5_JobSuccessNeedsAllBlocks ==
    \A j \in Jobs :
        /\ job_state[j] = "success" =>
              /\ \A b \in Range(job_blocks[j]) : pc[b] # "failed"
              /\ \A b \in PipelineBlocks(j) : b \in block_success
        /\ (JobEnded(j) /\ \E b \in Range(job_blocks[j]) : pc[b] = "failed")
              => job_state[j] = "failed"

\* C5 witness: a job has ended failed with one block raised after another
\* block of the same shard was marked.
C5_Witness ==
    \E j \in Jobs :
        /\ job_state[j] = "failed"
        /\ \E b, c \in Range(job_blocks[j]) :
              pc[b] = "failed" /\ c \in block_success

\* C6 (as stated): a masked-out block is not recorded as Success.
C6_MaskedBlockNotSuccess ==
    \A b \in AllBlocks : MaskedOut(b) => b \notin block_success

\* C6 (amended): the pipeline of a masked-out block never raises, it ends
\* with a Success marker and an untouched output region (there is no separate
\* Skipped outcome), and the block is never put on a retry list.
C6_MaskedBlockMarkedSuccess ==
    \A b \in AllBlocks :
        MaskedOut(b) =>
            /\ pc[b] # "failed"
            /\ pc[b] = "marked" <=> b \in block_success
            /\ b \in block_success => out[b] = "none"
            /\ b \notin Range(self_block_list)
            /\ stage = "Completed" => b \in block_success

\* C6 witness: a stage with a masked-out block has completed.
C6_Witness ==
    /\ stage = "Completed"
    /\ \E b \in AllBlocks : MaskedOut(b) /\ b \in block_success

\* C7: for a masked-out block no input region is loaded and neither
\* preprocess nor predict nor a write to an output dataset is invoked; None
\* is all that flows through its pipeline.
C7_MaskedBlockNoWork ==
    \A b \in AllBlocks :
        MaskedOut(b) =>
            /\ calls[b] = {}
            /\ data[b] \in {"unset", "None"}
            /\ out[b] = "none"

\* C7 witness: the chain of a masked-out block has run to its end beside a
\* block that was loaded, predicted and written.
C7_Witness ==
    \E b, c \in AllBlocks :
        /\ MaskedOut(b) /\ pc[b] = "marked"
        /\ calls[c] = {"load", "preprocess", "predict", "write"}

\* The shards of the attempt one after the other, in job order.
RECURSIVE ShardsInOrder(_)
ShardsInOrder(k) ==
    IF k = 0 THEN <<>> ELSE ShardsInOrder(k - 1) \o job_blocks[k - 1]

\* C11: during an attempt the shards are pairwise disjoint, no shard names a
\* block twice, the union of the shards is exactly the attempt's block list,
\* and every block that has not succeeded yet is in a shard of the attempt.
C11_ShardPartition ==
    stage = "AwaitingCompletion" =>
        /\ \A i, j \in Jobs :
              i # j => Range(job_blocks[i]) \cap Range(job_blocks[j]) = {}
        /\ \A j \in Jobs : Cardinality(Range(job_blocks[j])) = Len(job_blocks[j])
        /\ UNION {Range(job_blocks[j]) : j \in Jobs} = Range(block_list)
        /\ \A b \in AllBlocks :
              b \notin block_success => \E j \in Jobs : InJob(b, j)

\* C11 witness: a retry attempt with two shards runs while an earlier attempt
\* has already marked a block, which is in no shard any more.
C11_Witness ==
    /\ stage = "AwaitingCompletion"
    /\ n_retries > 0
    /\ Cardinality(Jobs) = 2
    /\ \E b \in block_success : b \notin Range(block_list)

\* C12 (as stated): every attempt has min(len(block_list), max_jobs) shards,
\* none empty, contiguous slices of the block list, sizes differing by at
\* most one.
C12_ShardCountIsMin ==
    stage = "AwaitingCompletion" =>
        /\ Jobs = 0..(Min(Len(block_list), max_jobs) - 1)
        /\ \A j \in Jobs : Len(job_blocks[j]) > 0
        /\ ShardsInOrder(Cardinality(Jobs)) = block_list
        /\ \A i, j \in Jobs : Len(job_blocks[i]) - Len(job_blocks[j]) <= 1

\* C12 (amended): multiscale inference and the background size filter use
\* min(len(block_list), max_jobs) shards, sub_solutions always one; the shard
\* count never exceeds max_jobs, no shard is empty, the shards are contiguous
\* slices of the ordered block list and their sizes differ by at most one.
C12_ShardCountAndBalance ==
    stage = "AwaitingCompletion" =>
        /\ Jobs = 0..((IF task = "sub_solutions"
                       THEN 1 ELSE Min(Len(block_list), max_jobs)) - 1)
        /\ Cardinality(Jobs) <= max_jobs
        /\ \A j \in Jobs : Len(job_blocks[j]) > 0
        /\ ShardsInOrder(Cardinality(Jobs)) = block_list
        /\ \A i, j \in Jobs : Len(job_blocks[i]) - Len(job_blocks[j]) <= 1

\* C12 witness: an attempt whose block list does not divide evenly runs with
\* max_jobs shards of different sizes, one of them already finished.
C12_Witness ==
    /\ stage = "AwaitingCompletion"
    /\ task # "sub_solutions"
    /\ Cardinality(Jobs) = max_jobs
    /\ \E i, j \in Jobs :
          Len(job_blocks[i]) > Len(job_blocks[j]) /\ job_state[j] = "success"

\* C16 (as stated): a block that a retry attempt is about to re-run never
\* starts from an output region the failed attempt wrote in part.
C16_RetryStartsFromCleanOutput ==
    (stage = "AwaitingCompletion" /\ n_retries > 0) =>
        \A b \in Range(block_list) : pc[b] = "todo" => out[b] # "partial"

\* Position of a call in the call sequence of run_impl (0: not called).
CallIndex(what) ==
    IF what \in Range(run_calls)
    THEN CHOOSE i \in 1..Len(run_calls) : run_calls[i] = what
    ELSE 0

\* C17: multiscale inference (allow_retry = False) is attempted at most once:
\* its retry counter stays 0, run_impl never takes the retry branch, a check
\* that finds unmarked blocks ends the stage in the fatal state, and once
\* failed the stage submits no further jobs.
C17_NoRetryWhenDisallowed ==
    /\ [](task = "multiscale_inference" =>
              /\ n_retries = 0
              /\ CallIndex("clean_up_for_retry") = 0)
    /\ [][(/\ task = "multiscale_inference"
           /\ stage = "AwaitingCompletion"
           /\ stage' # "AwaitingCompletion"
           /\ UnmarkedOf(block_list) # <<>>)
             => stage' = "Failed"]_vars
    /\ [][(task = "multiscale_inference" /\ stage = "Failed")
             => /\ stage' = "Failed"
                /\ job_blocks' = job_blocks
                /\ job_state' = job_state]_vars

\* C17 witness: with retries left in the budget, the single attempt of
\* multiscale inference has failed with some blocks marked and some not, and
\* the stage has ended in the fatal state.
C17_Witness ==
    /\ task = "multiscale_inference"
    /\ stage = "Failed"
    /\ n_retries = 0
    /\ n_retries < max_num_retries
    /\ block_success # {}
    /\ block_success # AllBlocks

\* C18: the output dataset is created at most once, by the first run_impl
\* and before it submits jobs; jobs exist only while the dataset exists; a
\* retry's run_impl requires the dataset again without creating it anew, and
\* nothing creates or removes it while jobs run.
C18_DatasetCreatedOnceBeforeJobs ==
    /\ [](/\ Jobs # {} => ds_exists
          /\ n_create <= 1
          /\ run_calls # <<>> =>
                /\ CallIndex("require_dataset") > 0
                /\ CallIndex("require_dataset") < CallIndex("prepare_jobs")
                /\ CallIndex("prepare_jobs") < CallIndex("submit_jobs"))
    /\ [][n_create' # n_create =>
             /\ stage = "Planned" /\ n_retries = 0
             /\ Jobs = {}
             /\ n_create' = n_create + 1]_vars
    /\ [][ds_exists => ds_exists']_vars

\* C18 witness: a retry attempt is running; its run_impl required the
\* dataset again after clean_up_for_retry, and the dataset has been created
\* once.
C18_Witness ==
    /\ stage = "AwaitingCompletion"
    /\ n_retries > 0
    /\ CallIndex("clean_up_for_retry") > 0
    /\ CallIndex("require_dataset") > 0
    /\ ds_exists
    /\ n_create = 1

----------------------------------------------------------------------------
(* Claims about _read_subresults (checked under SpecMerge) *)

\* The stored sub-result of the k-th kept block.
KeptSubres(k) == mIn[mBlockList[k]].subres

DictValues(d) == {d[x] : x \in DOMAIN d}

\* C8 (as stated): each block's offset is the sum of the maximum local ids of
\* the blocks processed before it, the first offset being 0.
C8_OffsetsSumOfMaxima ==
    mpc = "done" =>
        \A k \in 1..Len(mOffsets) :
            mOffsets[k] = SumSeq([j \in 1..(k - 1) |-> SeqMax(KeptSubres(j))])

\* C8 (amended): each kept block's offset is the sum, over the kept blocks
\* before it in block-list order, of (maximum local result id + 1); the first
\* offset is 0 and a block without sub-results adds nothing.  On the worked
\* example (results up to 2, none, up to 4) the offsets are 0 and 3, result 2
\* of the first block maps to 2 and result 4 of the third block maps to 7.
C8_OffsetsSumOfCounts ==
    mpc = "done" =>
        /\ \A k \in 1..Len(mOffsets) :
              mOffsets[k] =
                  SumSeq([j \in 1..(k - 1) |-> SeqMax(KeptSubres(j)) + 1])
        /\ mIn = ExampleInput =>
              /\ mBlockList = <<1, 3>>
              /\ mOffsets = <<0, 3>>
              /\ mDicts[1][2] = 2
              /\ mDicts[2][4] = 7

\* C8 witness: the worked example has been merged, with a block without
\* sub-results between two blocks that have them.
C8_Witness ==
    /\ mpc = "done"
    /\ mIn = ExampleInput
    /\ mOffsets = <<0, 3>>

\* C9: in every per-block dictionary the key 0, when present, maps to 0,
\* whatever the block's offset and with or without an initial node labeling.
C9_ZeroMapsToZero ==
    mpc = "done" =>
        \A k \in 1..Len(mDicts) : 0 \in DOMAIN mDicts[k] => mDicts[k][0] = 0

\* C9 witness: with an initial node labeling, a block with a positive offset
\* has the key 0 in its dictionary.
C9_Witness ==
    /\ mpc = "done"
    /\ mLabeling # None
    /\ \E k \in 1..Len(mDicts) : mOffsets[k] > 0 /\ 0 \in DOMAIN mDicts[k]

\* C10: two different blocks never share a final id other than the reserved 0.
C10_GloballyUnique ==
    mpc = "done" =>
        \A a, b \in 1..Len(mDicts) :
            a # b => (DictValues(mDicts[a]) \cap DictValues(mDicts[b])) \subseteq {0}

\* C10 witness: two blocks with sub-results were merged and both assign a
\* non-zero final id.
C10_Witness ==
    /\ mpc = "done"
    /\ \E a, b \in 1..Len(mDicts) :
          /\ a # b
          /\ DictValues(mDicts[a]) \ {0} # {}
          /\ DictValues(mDicts[b]) \ {0} # {}

\* C27: a block for which no sub-result is stored adds nothing to the offset
\* of any later block (a kept block's offset is the sum of maximum + 1 over
\* the blocks with a stored sub-result before it), and it is left out of the
\* write phase: it is not in the returned block list and no dictionary is
\* made for it, so that no write is submitted for its region.
C27_NoneBlockOmitted ==
    mpc = "done" =>
        /\ \A i \in 1..Len(mIn) :
              mIn[i].subres = None => i \notin Range(mBlockList)
        /\ Len(mDicts) = Len(mBlockList)
        /\ Len(mOffsets) = Len(mBlockList)
        /\ \A k \in 1..Len(mBlockList) :
              mOffsets[k] =
                  SumSeq([i \in 1..(mBlockList[k] - 1) |->
                             IF mIn[i].subres = None THEN 0
                             ELSE SeqMax(mIn[i].subres) + 1])

\* C27 witness: a block without stored sub-result lies between two blocks
\* that were merged.
C27_Witness ==
    /\ mpc = "done"
    /\ \E i \in 2..(Len(mIn) - 1) :
          /\ mIn[i].subres = None
          /\ mResults[i] = ResNone
          /\ (i - 1) \in Range(mBlockList)
          /\ (i + 1) \in Range(mBlockList)

\* C33: whatever the order in which the reader threads finish, what
\* _read_subresults returns is determined by its arguments alone: a reader's
\* result is that of its own block, the returned block list is the blocks
\* with a sub-result in block_list order, and offsets and dictionaries are
\* computed from the stored nodes and sub-results in that order.
C33_DeterministicUnderConcurrency ==
    LET n      == Len(mIn)
        r      == [i \in 1..n |-> read_subres(mIn[i])]
        kept   == KeptIndices([i \in 1..n |-> r[i].tag = "res"], 1)
        offs   == block_offsets([k \in 1..Len(kept) |-> r[kept[k]].off])
        raises == \/ \E i \in 1..n : r[i] = AssertionError
                  \/ Len(kept) = 0
                  \/ \E k \in 1..Len(kept) : IndexError(mLabeling, r[kept[k]].nodes)
    IN  /\ \A i \in 1..n : mResults[i] \in {Pending, r[i]}
        /\ mpc = "error" => raises
        /\ mpc = "done" =>
              /\ ~raises
              /\ mBlockList = kept
              /\ mOffsets = offs
              /\ mDicts = [k \in 1..Len(kept) |->
                              block_result_dict(
                                  apply_labeling(mLabeling, r[kept[k]].nodes),
                                  add_offset(r[kept[k]].subres, offs[k]))]

\* C33 witness: the reader of the last block has finished before the reader
\* of the first block, and both blocks have a sub-result.
C33_Witness ==
    /\ mpc = "reading"
    /\ Len(mIn) > 1
    /\ mResults[1] = Pending
    /\ mIn[1].subres # None
    /\ mResults[Len(mIn)].tag = "res"
    /\ mIn[1] # mIn[Len(mIn)]

\* C31 (as stated): in every per-block dictionary a non-zero node id is never
\* mapped to the final id 0.
C31_OnlyBackgroundMapsToBackground ==
    mpc = "done" =>
        \A k \in 1..Len(mDicts) :
            \A x \in DOMAIN mDicts[k] : x # 0 => mDicts[k][x] # 0

----------------------------------------------------------------------------
(* Claims about the block grid (checked under SpecGrid) *)

\* The region asked for: the roi when there is one, else the whole volume.
RequestedRegion ==
    IF hIn.roi_begin = None
    THEN [begin |-> Origin, end |-> hIn.shape]
    ELSE [begin |-> hIn.roi_begin, end |-> hIn.roi_end]

\* The coordinates of the box [begin, end).
Points(begin, end) ==
    {x \in [Axes -> 0..MaxExtent] : \A d \in Axes : begin[d] <= x[d] /\ x[d] < end[d]}

\* The listed blocks that hold coordinate x.
BlocksAt(x) ==
    {k \in 1..Len(hOut.blocks) :
        \A d \in Axes : hOut.blocks[k].begin[d] <= x[d] /\ x[d] < hOut.blocks[k].end[d]}

\* Row-major order of two block origins.
RowMajorBefore(a, b) == a[1] < b[1] \/ (a[1] = b[1] /\ a[2] < b[2])

\* C13 (as stated): the listed blocks cover every coordinate of the requested
\* region exactly once, their ids are in row-major order, and no block ends
\* beyond the end of the requested region.
C13_TilesRequestedRegion ==
    hpc = "done" =>
        /\ \A x \in Points(RequestedRegion.begin, RequestedRegion.end) :
              Cardinality(BlocksAt(x)) = 1
        /\ \A k, l \in 1..Len(hOut.blocks) :
              k < l => /\ hOut.block_list[k] < hOut.block_list[l]
                       /\ RowMajorBefore(hOut.blocks[k].begin, hOut.blocks[l].begin)
        /\ \A k \in 1..Len(hOut.blocks) : \A d \in Axes :
              hOut.blocks[k].end[d] <= RequestedRegion.end[d]

\* C13 (amended): the grid is laid over the whole volume.  The listed blocks
\* never overlap and cover every coordinate of the requested region exactly
\* once; without a roi they are all blocks of the grid and tile the volume,
\* with a roi they are exactly the grid blocks that intersect it (and may
\* reach beyond it); ids are in row-major order; every block is non-empty,
\* never larger than the block shape, ends inside the volume, and is shorter
\* than the block shape only where it is cut at the end of the volume.
C13_TilesVolumeGrid ==
    hpc = "done" =>
        /\ \A x \in Points(Origin, hIn.shape) : Cardinality(BlocksAt(x)) <= 1
        /\ \A x \in Points(RequestedRegion.begin, RequestedRegion.end) :
              Cardinality(BlocksAt(x)) = 1
        /\ \A k \in 1..Len(hOut.blocks) :
              Overlaps(hOut.blocks[k], RequestedRegion.begin, RequestedRegion.end)
        /\ \A k, l \in 1..Len(hOut.blocks) :
              k < l => /\ hOut.block_list[k] < hOut.block_list[l]
                       /\ RowMajorBefore(hOut.blocks[k].begin, hOut.blocks[l].begin)
        /\ \A k \in 1..Len(hOut.blocks) : \A d \in Axes :
              LET b == hOut.blocks[k]
              IN  /\ 0 <= b.begin[d] /\ b.begin[d] < b.end[d]
                  /\ b.end[d] <= hIn.shape[d]
                  /\ b.end[d] - b.begin[d] <= hIn.block_shape[d]
                  /\ b.end[d] - b.begin[d] < hIn.block_shape[d]
                        => b.end[d] = hIn.shape[d]

\* C13 witness: a grid with a roi that is not aligned to it has been listed;
\* one listed block is cut short at the end of the volume, and one reaches
\* beyond the end of the roi.
C13_Witness ==
    /\ hpc = "done"
    /\ hIn.roi_begin # None
    /\ Len(hOut.blocks) > 1
    /\ \E k \in 1..Len(hOut.blocks) : \E d \in Axes :
          hOut.blocks[k].end[d] - hOut.blocks[k].begin[d] < hIn.block_shape[d]
    /\ \E k \in 1..Len(hOut.blocks) : \E d \in Axes :
          hOut.blocks[k].end[d] > hIn.roi_end[d]

----------------------------------------------------------------------------
(* Claims about _load_input (checked under SpecHalo) *)

\* The window before clamping lies inside the dataset.
WindowInside ==
    \A d \in Axes : hOut.starts[d] >= 0 /\ hOut.stops[d] <= hIn.shape[d]

C15_MultiscaleHaloTranslation ==
    hpc # "window" =>
        /\ \A d \in Axes :
              /\ hOut.starts[d] = (hIn.offset[d] \div hIn.scale_factor[d])
                                    - (hIn.halo[d] \div hIn.scale_factor[d])
                                    - hIn.scale_halo[d]
              /\ hOut.stops[d] = (hIn.offset[d] \div hIn.scale_factor[d])
                                   + (hIn.block_shape[d] \div hIn.scale_factor[d])
                                   + (hIn.halo[d] \div hIn.scale_factor[d])
                                   + hIn.scale_halo[d]
        /\ hIn = HaloExample =>
              hOut.starts = <<2, 7>> /\ hOut.stops = <<13, 18>>

\* C15 witness: the window of the hand-computed example has been computed;
\* its second axis differs from the full-resolution window divided down,
\* which would begin at floor((20 - 5) / 2) - 1 = 6.
C15_Witness ==
    /\ hpc = "done"
    /\ hIn = HaloExample
    /\ hOut.starts[2] # ((hIn.offset[2] - hIn.halo[2]) \div hIn.scale_factor[2])
                           - hIn.scale_halo[2]

----------------------------------------------------------------------------
(* Claims about the configuration checks (checked under SpecConfig) *)

\* C19 (as stated): no job is submitted with a configuration that a check of
\* the job then rejects.
C19_ConfigErrorsFatalBeforeSubmission == hpc # "job_rejected"

\* C20 (as stated): a channel mapping that has been used to write a block's
\* output consists of ranges start < stop inside [0, number of prediction
\* channels) that are pairwise disjoint.
C20_ChannelMappingDisjointInRange ==
    hpc = "written" =>
        LET cm == hIn.channel_mapping
        IN  /\ \A k \in 1..Len(cm) :
                  /\ 0 <= cm[k][1] /\ cm[k][1] < cm[k][2]
                  /\ cm[k][2] <= hIn.prediction.channels
            /\ \A k, l \in 1..Len(cm) :
                  k # l => (cm[k][2] <= cm[l][1] \/ cm[l][2] <= cm[k][1])

\* C28 (as stated): when the prediction of a block is a single array without
\* channel axis and several outputs are declared, write_output of the block
\* completes without error.
C28_SingleArraySoleOutput ==
    ( /\ "prediction" \in DOMAIN hIn
      /\ hIn.prediction.ndim = 3
      /\ Len(hOut) > 1 ) => hpc = "written"

----------------------------------------------------------------------------
(* Claims about the thread pool of a job (checked under SpecPipeline) *)

\* C21: the calls of a block's chain return in the order load_input,
\* preprocess_impl, predict_impl, write_output, log2; at most one call of a
\* chain is executing at a time, and it is the one after the last that
\* returned; at most n_threads calls (of any blocks) execute at the same time.
C21_StagesInOrder ==
    /\ \A b \in AllBlocks :
          /\ hOut[b] = SubSeq(Stages, 1, Len(hOut[b]))
          /\ hpc.started[b] \in {Len(hOut[b]), Len(hOut[b]) + 1}
    /\ Cardinality(Executing) <= hIn.n_threads

\* C21 witness: write_output of one block and load_input of another execute
\* at the same time, and a third block waits for a free thread.
C21_Witness ==
    /\ hpc.compute = "running"
    /\ \E b, c, d \in AllBlocks :
          /\ <<b, 4>> \in Executing
          /\ <<c, 1>> \in Executing
          /\ hpc.started[d] = 0
    /\ Cardinality(Executing) = hIn.n_threads

----------------------------------------------------------------------------
(* Claims about the crop of a block's output (checked under SpecCrop) *)

\* C22 (as stated): the array that write_output has written for a block has
\* exactly the block's shape end - begin (behind the channel axis of a
\* multi-channel dataset), it is written to the block's bounding box
\* [begin, end), and its first element is the voxel at begin: no halo and no
\* padding is left.
C22_WriteCrop ==
    hpc = "written" =>
        LET block == getBlock(blocking(Origin, hIn.shape, hIn.block_shape), hIn.block_id)
            shape == [d \in Axes |-> block.end[d] - block.begin[d]]
        IN  /\ hOut.data \in {shape, <<hOut.data[1]>> \o shape}
            /\ hOut.data = hOut.region
            /\ hOut.out_bb = [begin |-> block.begin, end |-> block.end]
            /\ hOut.origin = block.begin

----------------------------------------------------------------------------
(* Claims about the writers of an attempt (checked under SpecWriters) *)

\* The writes, begun or finished, that cover coordinate x.
WritersOf(x) ==
    {w \in (0..(MaxJobs - 1)) \X (0..(MaxExtent * MaxExtent - 1)) :
        /\ w[1] \in DOMAIN hpc /\ w[2] \in DOMAIN hpc[w[1]]
        /\ hpc[w[1]][w[2]] \in {"writing", "written"}
        /\ \A d \in Axes : written_bb(w[2]).begin[d] <= x[d]
                           /\ x[d] < written_bb(w[2]).end[d]}

\* C23: every voxel of the output dataset is written by at most one block of
\* one job, whether the writes run at the same time or one after the other,
\* and every write stays inside the dataset.
C23_DisjointWriters ==
    /\ \A x \in [Axes -> -1..MaxExtent] : Cardinality(WritersOf(x)) <= 1
    /\ \A x \in [Axes -> -1..MaxExtent] :
          WritersOf(x) # {} => \A d \in Axes : 0 <= x[d] /\ x[d] < hIn.shape[d]

\* C23 witness: two jobs write at the same time, each a block of its own
\* shard, while the write of a third block has finished.
C23_Witness ==
    /\ Cardinality(DOMAIN hpc) = 2
    /\ \E b \in DOMAIN hpc[0], c \in DOMAIN hpc[1] :
          hpc[0][b] = "writing" /\ hpc[1][c] = "writing"
    /\ \E j \in DOMAIN hpc : \E b \in DOMAIN hpc[j] : hpc[j][b] = "written"

----------------------------------------------------------------------------
(* Claims about the end-to-end example (checked under SpecIdentity) *)

\* The float f is the integer v.
FloatIs(f, v) == f.den # 0 /\ f.num = v * f.den

\* C24 (as stated): the example has 8 blocks, and what the pipeline has
\* written for a block equals the block's input at every voxel.
C24_EndToEndIdentity ==
    /\ Len(hIn.block_list) = 8
    /\ hpc = "done" => hOut.n_marked = 8
    /\ hOut.written # <<>> =>
          \A i \in 1..Len(hOut.input) : FloatIs(hOut.written[i], hOut.input[i])

\* C24 (amended): the example has 8 blocks and all 8 are marked at the end;
\* what the pipeline has written for a block is the block's input after
\* preprocessing, (v - mean) / (std + 0.0001) with the mean and the standard
\* deviation of the block's non-zero voxels: nan for a block of zeros;
\* 10000 * (v - a) beside a single non-zero voxel a; and
\* (v - (a + b) / 2) / (|a - b| / 2 + 0.0001) for the non-zero voxels a, b.
C24_OutputIsNormalizedInput ==
    /\ Len(hIn.block_list) = 8
    /\ hpc = "done" => hOut.n_marked = 8
    /\ hOut.written # <<>> =>
          LET a == hOut.input[1]
              b == hOut.input[2]
          IN  \A i \in 1..2 :
                 LET v == hOut.input[i]
                     w == hOut.written[i]
                 IN  IF a = 0 /\ b = 0 THEN w.den = 0
                     ELSE IF a = 0 \/ b = 0
                     THEN FloatIs(w, 10000 * (v - (a + b)))
                     ELSE /\ w.den # 0
                          /\ w.num * ((IF a < b THEN b - a ELSE a - b) * 10000 + 2)
                                = 10000 * (2 * v - a - b) * w.den

\* C24 witness: all 8 blocks are marked; the last one held a zero voxel and
\* a voxel of value 2, which were written as -20000 and 0.
C24_Witness ==
    /\ hpc = "done"
    /\ hOut.n_marked = 8
    /\ hOut.input = <<0, 2>>
    /\ hOut.written = <<Float(-20000, 1), Float(0, 1)>>

----------------------------------------------------------------------------
(* Claims about termination (checked under FairSpec) *)

\* C25: every stage invocation eventually reaches a terminal state, Completed
\* or Failed, and never makes more retries than the retry budget allows.
C25_Termination ==
    /\ <>(stage \in {"Completed", "Failed"})
    /\ [](n_retries <= max_num_retries)

\* C25 witness: a retryable stage has used up its retry budget and has ended
\* as Failed, after every job of the last attempt had ended.
C25_Witness ==
    /\ task = "background_size_filter"
    /\ stage = "Failed"
    /\ n_retries = max_num_retries
    /\ JobsFinished

----------------------------------------------------------------------------
(* Claims about the job-success marker (checked under Spec) *)

\* C30 (as stated): whenever a job has written its job-success marker, every
\* block of the job's block_list has a block Success marker, in all three
\* stages.
C30_JobSuccessImpliesBlockSuccess ==
    \A j \in Jobs :
        job_state[j] = "success" =>
            \A b \in Range(job_blocks[j]) : b \in block_success

----------------------------------------------------------------------------
(* Claims about the planning of an attempt (checked under Spec) *)

\* C26: on the fresh attempt (n_retries = 0) run_impl computes the full block
\* list and does not call clean_up_for_retry; on a retry attempt it takes the
\* stored list of failed blocks, and calls clean_up_for_retry, which starts
\* over the blocks of exactly that list, before prepare_jobs and submit_jobs.
C26_AttemptPlanning ==
    [][(stage = "Planned" /\ stage' = "AwaitingCompletion") =>
          LET idx(what) ==
                  IF \E i \in 1..Len(run_calls') : run_calls'[i] = what
                  THEN CHOOSE i \in 1..Len(run_calls') : run_calls'[i] = what
                  ELSE 0
          IN  IF n_retries = 0
              THEN /\ block_list' = blocks_in_volume
                   /\ idx("blocks_in_volume") > 0
                   /\ idx("clean_up_for_retry") = 0
                   /\ UNCHANGED <<pc, data, out>>
              ELSE /\ block_list' = self_block_list
                   /\ idx("blocks_in_volume") = 0
                   /\ idx("clean_up_for_retry") > 0
                   /\ idx("clean_up_for_retry") < idx("prepare_jobs")
                   /\ idx("clean_up_for_retry") < idx("submit_jobs")
                   /\ \A b \in AllBlocks :
                         IF b \in Range(self_block_list)
                         THEN pc'[b] = "todo" /\ data'[b] = "unset"
                         ELSE pc'[b] = pc[b] /\ data'[b] = data[b] /\ out'[b] = out[b]
                   /\ \A j \in DOMAIN job_blocks' :
                         Range(job_blocks'[j]) \subseteq Range(self_block_list)]_vars

\* C26 witness: a retry attempt has just been submitted for a proper part of
\* the blocks; the listed blocks start over, the others keep their marker.
C26_Witness ==
    /\ n_retries > 0
    /\ stage = "AwaitingCompletion"
    /\ block_list = self_block_list
    /\ Len(block_list) \in 1..(NBlocks - 1)
    /\ run_calls[1] = "clean_up_for_retry"
    /\ \A b \in AllBlocks :
          IF b \in Range(block_list) THEN pc[b] = "todo" ELSE pc[b] = "marked"

----------------------------------------------------------------------------
(* Claims about the attempts of sub_solutions (checked under SpecAttempts) *)

\* C29 (as stated): after a fresh attempt and any retries, the non-zero ids
\* that the output regions of two different blocks hold are disjoint.
C29_IdsDisjointAcrossAttempts ==
    \A p, q \in 1..Len(hIn) :
        p # q => (hOut.written[p] \cap hOut.written[q]) \subseteq {0}

----------------------------------------------------------------------------
(* Claims about apply_block (checked under SpecFilter) *)

\* C32 (as stated): after apply_block(b) has returned, every voxel of b's
\* region of the output is 0 where the input label is discarded and the input
\* label elsewhere, whatever the block and the output held before; the voxels
\* of blocks that were not processed are as they were.
C32_ApplyBlockFilters ==
    \A b \in 0..1 : \A v \in block_voxels(b) :
        IF b \in hOut.returned
        THEN hOut.ds_out[v] = IF hIn.ds_in[v] \in hIn.discard_ids THEN 0
                              ELSE hIn.ds_in[v]
        ELSE hOut.ds_out[v] = IF hIn.in_place THEN hIn.ds_in[v] ELSE hIn.prior[v]

----------------------------------------------------------------------------
(* Claims about the lock of the predictor (checked under FairSpecLock) *)

\* C34: at most one thread is inside apply_model at any moment, namely the
\* holder of the lock; the lock is free whenever no thread is inside, also
\* after the model has raised; and every thread that waits for the lock
\* gets inside.
C34_PredictorMutualExclusion ==
    /\ [](\A t, u \in Threads :
             hpc[t] = "inside" /\ hpc[u] = "inside" => t = u)
    /\ [](\A t \in Threads : hpc[t] = "inside" <=> hOut.lock = t)
    /\ \A t \in Threads : (hpc[t] = "waiting") ~> (hpc[t] = "inside")

\* C34 witness: the model has raised in one thread, the lock was released,
\* and a thread that had been waiting is now inside apply_model.
C34_Witness ==
    /\ hOut.raised
    /\ \E t \in Threads : hpc[t] = "inside" /\ hOut.lock = t

=============================================================================
